---- MODULE Spec2Model ----
(***************************************************************************)
(* Forge server (index.ts): the express middleware stack, the in-memory    *)
(* rate limiter, the envelope formatter, the zod schemas and the route     *)
(* handlers, as a state machine.  One request is followed from its arrival *)
(* to its response; every synchronous run of the stack is one action, and  *)
(* an action ends where the code waits for an event (body read, archive).  *)
(***************************************************************************)
EXTENDS Integers, Sequences, FiniteSets, TLC

VARIABLES
    now,             \* Date.now(), in ms since the process started
    rateLimitStore,  \* index.ts:31  Map<clientId, {count, resetTime}>
    req,             \* the request being served (NoReq before the first)
    pc,              \* where the request is: "idle", "json", "urlencoded", "upload", "zip", "done";
                     \* "crashed" after an uncaught exception
    ctx,             \* per-request context: req.body, res.envelope, error, response, traces
    windowAdmits,    \* history: per client, requests admitted in [ObserveFrom, ObserveFrom + windowMs)
    NODE_ENV,        \* process.env.NODE_ENV, set before the process starts
    call,            \* envelope.ts:40  the arguments of a res.envelope.success call taken alone
    sent,            \* envelope.ts:47  what that call passed to res.json
    flights,         \* the requests in flight together, each waiting for an event
    admitted         \* history: per client, the requests the rate limiter let pass

vars == <<now, rateLimitStore, req, pc, ctx, windowAdmits, NODE_ENV, call, sent,
          flights, admitted>>

\* the variables the steps of a single request leave alone
aside == <<call, sent, flights, admitted>>

-----------------------------------------------------------------------------
(* Program constants *)

windowMs == 60000
maxRequests == 100
startTime == 0

(* Bounds of the model *)

\* the clock stops advancing at MaxTime
MaxTime == 60001
\* start of the 60 s interval whose admissions windowAdmits counts
ObserveFrom == 59001

Clients == {"c1", "c2"}

\* values of NODE_ENV: the two the error handler tests for, and another
Environments == {"production", "development", "test"}

\* instants at which the clock is read
Times == {t \in {0, 59001, 60000, 60001, 60002} : t <= MaxTime}

-----------------------------------------------------------------------------
(* Arithmetic of the code *)

Max(a, b) == IF a >= b THEN a ELSE b
Min(a, b) == IF a <= b THEN a ELSE b

\* Math.ceil(x / d) for d > 0 (x may be negative)
CeilDiv(x, d) == IF x >= 0 THEN (x + d - 1) \div d ELSE -((-x) \div d)

\* Math.floor(x / d) for d > 0 and x >= 0
FloorDiv(x, d) == x \div d

-----------------------------------------------------------------------------
(* JSON values of a request body.  Every value has the same shape:         *)
(*   t  the JavaScript type, s  the characters of a string,                *)
(*   n  a number in tenths (so 105 is 10.5), o  the entries of an object.  *)

Undef == [t |-> "undefined", s |-> <<>>, n |-> 0, o |-> <<>>]
JNull == [t |-> "null", s |-> <<>>, n |-> 0, o |-> <<>>]
JStr(s) == [t |-> "string", s |-> s, n |-> 0, o |-> <<>>]
JNum(tenths) == [t |-> "number", s |-> <<>>, n |-> tenths, o |-> <<>>]
JInt(i) == JNum(10 * i)
JBool(b) == [t |-> "boolean", s |-> <<>>, n |-> IF b THEN 1 ELSE 0, o |-> <<>>]
\* an object, as the sequence of its entries [k |-> key, v |-> value] in insertion order
JObj(entries) == [t |-> "object", s |-> <<>>, n |-> 0, o |-> entries]

\* JavaScript truthiness (if (x), x || y, !x)
Truthy(v) ==
    CASE v.t = "undefined" -> FALSE
      [] v.t = "null" -> FALSE
      [] v.t = "string" -> Len(v.s) > 0
      [] v.t = "number" -> v.n # 0
      [] v.t = "boolean" -> v.n = 1
      [] OTHER -> TRUE

\* n copies of the character ch
Rep(ch, n) == [i \in 1..n |-> ch]

\* the field names a request body may carry
BodyFields == {"transcript", "tone", "maxLen", "tweet", "instagram", "youtube",
               "captions", "ts", "level", "event", "userAnonId", "payload"}

EmptyBody == [f \in BodyFields |-> Undef]

\* a body with the given fields set: Body(<<"tone", v1, "maxLen", v2>>)
Body(kv) ==
    [f \in BodyFields |->
        IF \E i \in 1..(Len(kv) \div 2) : kv[2 * i - 1] = f
        THEN kv[2 * (CHOOSE i \in 1..(Len(kv) \div 2) : kv[2 * i - 1] = f)]
        ELSE Undef]

-----------------------------------------------------------------------------
(* Requests and responses *)

\* no file part; a file part is [present |-> TRUE, fieldname, originalname,
\* mimetype, size], the two names as sequences of characters
NoFile == [present |-> FALSE, fieldname |-> "", originalname |-> <<>>,
           mimetype |-> <<>>, size |-> 0]

NoReq == [client |-> "", method |-> "", path |-> <<>>, hasBody |-> FALSE,
          ctype |-> "", raw |-> "none", body |-> EmptyBody, file |-> NoFile]

NoRecord == [count |-> 0, resetTime |-> 0]

\* the response object before anything was written
NoResponse == [writes |-> 0, status |-> 200, ok |-> FALSE, code |-> "",
               message |-> "", data |-> [kind |-> "none"]]

\* res.status(s).json({ok, code, message, data}); a field given as "" or
\* [kind |-> "none"] is not part of the body
SendJson(res, s, ok, code, message, data) ==
    [writes |-> res.writes + 1, status |-> s, ok |-> ok, code |-> code,
     message |-> message, data |-> data]

\* the context a request starts with
NewCtx(r) ==
    [body |-> EmptyBody,        \* req.body
     parsed |-> FALSE,          \* a body parser has read the body (req._body)
     envelope |-> FALSE,        \* res.envelope is attached
     err |-> "none",            \* the error travelling through next(err)
     sig |-> "next",            \* "next": go on, "end": stop, "wait": an event is awaited
     at |-> "",                 \* the layer that waits
     res |-> NoResponse,
     file |-> NoFile,           \* req.file
     limited |-> "none",        \* the rate limiter's verdict: "none", "admitted", "rejected"
     ran |-> {},                \* the middlewares and handlers that ran for this request
     logged |-> <<>>,           \* the lines this request wrote with console.log
     zip |-> <<>>,              \* the entries appended to the archive
     archive |-> "none",        \* index.ts:309  zip: "none", "open" (its listeners
                                \* are attached), "ended"
     files |-> <<>>]            \* index.ts:310  files

\* a path is the sequence of its segments: /api/health is <<"api", "health">>
\* app.use("/api", f) runs f for /api and for every path below it
\* express matches paths without regard to case ("case sensitive routing" is
\* off): the segments requests use in another case than the routes do
LowerSegment(seg) ==
    CASE seg = "API" -> "api"
      [] seg = "exportZip" -> "exportzip"
      [] OTHER -> seg

LowerPath(path) == [i \in 1..Len(path) |-> LowerSegment(path[i])]

UnderApi(path) == Len(path) >= 1 /\ LowerSegment(path[1]) = "api"

-----------------------------------------------------------------------------
(* Strings, as sequences of characters *)

IsSpace(ch) == ch \in {" ", "\t", "\n"}

\* String.prototype.slice(0, e) for e >= 0
Slice(s, e) == SubSeq(s, 1, Min(e, Len(s)))

\* s.replace(/\s+/g, " "): every maximal run of whitespace becomes one space
\* (a whitespace character is dropped when the one before it is whitespace,
\* and written as a space otherwise)
StartsRun(pair) == ~(IsSpace(pair[1]) /\ pair[2])

Collapse(s) ==
    LET marked == [i \in 1..Len(s) |-> <<s[i], i > 1 /\ IsSpace(s[i - 1])>>]
        kept == SelectSeq(marked, StartsRun)
    IN [i \in 1..Len(kept) |-> IF IsSpace(kept[i][1]) THEN " " ELSE kept[i][1]]

\* the first index from i on that holds no whitespace (Len(s) + 1 if none)
FirstNonSpace(s, i) ==
    CHOOSE k \in i..(Len(s) + 1) :
        /\ (k > Len(s) \/ ~IsSpace(s[k]))
        /\ \A j \in i..(k - 1) : IsSpace(s[j])

\* the last index up to i that holds no whitespace (0 if none)
LastNonSpace(s, i) ==
    CHOOSE k \in 0..i :
        /\ (k < 1 \/ ~IsSpace(s[k]))
        /\ \A j \in (k + 1)..i : IsSpace(s[j])

\* String.prototype.trim()
Trim(s) == SubSeq(s, FirstNonSpace(s, 1), LastNonSpace(s, Len(s)))

-----------------------------------------------------------------------------
(* index.ts:34-62  rateLimiter *)

\* rateLimiter with the window test written now >= resetTime
rateLimiter_expiresEarly(x) ==
    LET key == x.req.client
        record == x.store[key]
    IN IF record = NoRecord \/ x.now >= record.resetTime
       THEN [x EXCEPT !.limited = "admitted",
                      !.store[key] = [count |-> 1, resetTime |-> x.now + windowMs]]
       ELSE IF record.count >= maxRequests
       THEN [x EXCEPT !.limited = "rejected", !.sig = "end",
                      !.res = SendJson(@, 429, FALSE, "RATE_LIMIT_EXCEEDED",
                                       "Too many requests. Please try again later.",
                                       [kind |-> "retry",
                                        retryAfter |-> CeilDiv(record.resetTime - x.now, 1000)])]
       ELSE [x EXCEPT !.limited = "admitted", !.store[key].count = @ + 1]

\* rateLimiter with one record shared by all clients
rateLimiter_sharedKey(x) ==
    LET key == "c1"
        record == x.store[key]
    IN IF record = NoRecord \/ x.now > record.resetTime
       THEN [x EXCEPT !.limited = "admitted",
                      !.store[key] = [count |-> 1, resetTime |-> x.now + windowMs]]
       ELSE IF record.count >= maxRequests
       THEN [x EXCEPT !.limited = "rejected", !.sig = "end",
                      !.res = SendJson(@, 429, FALSE, "RATE_LIMIT_EXCEEDED",
                                       "Too many requests. Please try again later.",
                                       [kind |-> "retry",
                                        retryAfter |-> CeilDiv(record.resetTime - x.now, 1000)])]
       ELSE [x EXCEPT !.limited = "admitted", !.store[key].count = @ + 1]

\* rateLimiter that never looks at resetTime: an expired record goes on
\* counting and rejecting
rateLimiter_neverExpires(x) ==
    LET key == IF x.req.client # "" THEN x.req.client ELSE "unknown"
        record == x.store[key]
    IN IF record = NoRecord
       THEN [x EXCEPT !.limited = "admitted",
                      !.store[key] = [count |-> 1, resetTime |-> x.now + windowMs]]
       ELSE IF record.count >= maxRequests
       THEN [x EXCEPT !.limited = "rejected", !.sig = "end",
                      !.res = SendJson(@, 429, FALSE, "RATE_LIMIT_EXCEEDED",
                                       "Too many requests. Please try again later.",
                                       [kind |-> "retry",
                                        retryAfter |-> CeilDiv(record.resetTime - x.now, 1000)])]
       ELSE [x EXCEPT !.limited = "admitted", !.store[key].count = @ + 1]

\* rateLimiter whose rejection starts the window again
rateLimiter_slidingReject(x) ==
    LET key == IF x.req.client # "" THEN x.req.client ELSE "unknown"
        record == x.store[key]
    IN IF record = NoRecord \/ x.now > record.resetTime
       THEN [x EXCEPT !.limited = "admitted",
                      !.store[key] = [count |-> 1, resetTime |-> x.now + windowMs]]
       ELSE IF record.count >= maxRequests
       THEN [x EXCEPT !.limited = "rejected", !.sig = "end",
                      !.store[key].resetTime = x.now + windowMs,
                      !.res = SendJson(@, 429, FALSE, "RATE_LIMIT_EXCEEDED",
                                       "Too many requests. Please try again later.",
                                       [kind |-> "retry",
                                        retryAfter |-> CeilDiv(record.resetTime - x.now, 1000)])]
       ELSE [x EXCEPT !.limited = "admitted", !.store[key].count = @ + 1]

\* rateLimiter with the limit test written count > maxRequests
rateLimiter_offByOne(x) ==
    LET key == IF x.req.client # "" THEN x.req.client ELSE "unknown"
        record == x.store[key]
    IN IF record = NoRecord \/ x.now > record.resetTime
       THEN [x EXCEPT !.limited = "admitted",
                      !.store[key] = [count |-> 1, resetTime |-> x.now + windowMs]]
       ELSE IF record.count > maxRequests
       THEN [x EXCEPT !.limited = "rejected", !.sig = "end",
                      !.res = SendJson(@, 429, FALSE, "RATE_LIMIT_EXCEEDED",
                                       "Too many requests. Please try again later.",
                                       [kind |-> "retry",
                                        retryAfter |-> CeilDiv(record.resetTime - x.now, 1000)])]
       ELSE [x EXCEPT !.limited = "admitted", !.store[key].count = @ + 1]

\* index.ts:34-62  rateLimiter
rateLimiter(x) ==
    LET clientId == IF x.req.client # "" THEN x.req.client ELSE "unknown"
        key == clientId
        record == x.store[key]
        counted == [x EXCEPT !.limited = "admitted",
                             !.admits[key] = IF x.now >= ObserveFrom /\ x.now < ObserveFrom + windowMs
                                             THEN @ + 1 ELSE @]
    IN IF record = NoRecord \/ x.now > record.resetTime
       THEN \* first request or window expired
            [counted EXCEPT !.store[key] = [count |-> 1, resetTime |-> x.now + windowMs]]
       ELSE IF record.count >= maxRequests
       THEN [x EXCEPT !.limited = "rejected",
                      !.sig = "end",
                      !.res = SendJson(@, 429, FALSE, "RATE_LIMIT_EXCEEDED",
                                       "Too many requests. Please try again later.",
                                       [kind |-> "retry",
                                        retryAfter |-> CeilDiv(record.resetTime - x.now, 1000)])]
       ELSE [counted EXCEPT !.store[key].count = @ + 1]

-----------------------------------------------------------------------------
(* src/middleware/envelope.ts *)

\* envelope.ts:30-66
envelopeMiddleware(x) == [x EXCEPT !.envelope = TRUE]

\* a handler threw: express passes the exception to next(err)
Throw(x, e) == [x EXCEPT !.err = e, !.sig = "next"]

\* envelope.ts:40-48  res.envelope.success(data, message, code); data is
\* [kind |-> "none"] for undefined, message and code are "" when not given
EnvelopeSuccess(x, data, message, code) ==
    IF ~x.envelope THEN Throw(x, "TypeError")
    ELSE [x EXCEPT !.sig = "end",
                   !.res = SendJson(@, @.status, TRUE, code, message, data)]

\* success that always puts data in the body, null when it is not given
success_nullData(data, message, code) ==
    [f \in {"ok", "data"} \cup (IF Truthy(code) THEN {"code"} ELSE {})
                          \cup (IF Truthy(message) THEN {"message"} ELSE {}) |->
        CASE f = "ok" -> JBool(TRUE)
          [] f = "code" -> code
          [] f = "message" -> message
          [] f = "data" -> IF data = Undef THEN JNull ELSE data]

\* envelope.ts:40-48  the body res.envelope.success builds: ok, then
\* `if (code)`, `if (message)`, `if (data !== undefined)`
success(data, message, code) ==
    [f \in {"ok"} \cup (IF Truthy(code) THEN {"code"} ELSE {})
                  \cup (IF Truthy(message) THEN {"message"} ELSE {})
                  \cup (IF data # Undef THEN {"data"} ELSE {}) |->
        CASE f = "ok" -> JBool(TRUE)
          [] f = "code" -> code
          [] f = "message" -> message
          [] f = "data" -> data]

\* envelope.ts:53-62  res.envelope.error(message, code, statusCode = 400)
EnvelopeError(x, message, code, statusCode) ==
    IF ~x.envelope THEN Throw(x, "TypeError")
    ELSE [x EXCEPT !.sig = "end",
                   !.res = SendJson(@, statusCode, FALSE, code, message, [kind |-> "none"])]

-----------------------------------------------------------------------------
(* The middlewares of index.ts:69-99, in the order they are registered *)

Ran(x, name) == [x EXCEPT !.ran = @ \cup {name}]

\* index.ts:69-74  cors(): a preflight (OPTIONS) request is answered with 204
\* by the middleware itself; any other request goes on
cors(x) ==
    IF x.req.method = "OPTIONS"
    THEN [x EXCEPT !.sig = "end",
                   !.res = [@ EXCEPT !.writes = @ + 1, !.status = 204]]
    ELSE x

IsJson(r) == r.hasBody /\ r.ctype = "application/json"
IsForm(r) == r.hasBody /\ r.ctype = "application/x-www-form-urlencoded"
IsMultipart(r) == r.hasBody /\ r.ctype = "multipart/form-data"

\* index.ts:75  express.json(): a body declared application/json is read
\* (the middleware waits for it); any other request goes on at once
jsonParser(x) ==
    IF IsJson(x.req) /\ ~x.parsed THEN [x EXCEPT !.sig = "wait", !.at = "json"] ELSE x

\* jsonParsed that takes a text that is not JSON for an empty object
jsonParsed_lenient(x) ==
    [x EXCEPT !.sig = "next", !.parsed = TRUE,
              !.body = IF x.req.raw = "malformed" THEN EmptyBody ELSE x.req.body]

\* express.json() once the body is read: req.body is the parsed value, or
\* next(err) with a SyntaxError of status 400 when the text is not JSON
jsonParsed(x) ==
    IF x.req.raw = "malformed"
    THEN [x EXCEPT !.sig = "next", !.err = "SyntaxError"]
    ELSE [x EXCEPT !.sig = "next", !.parsed = TRUE, !.body = x.req.body]

\* index.ts:76  express.urlencoded(): the same for a form body
urlencodedParser(x) ==
    IF IsForm(x.req) /\ ~x.parsed THEN [x EXCEPT !.sig = "wait", !.at = "urlencoded"] ELSE x

\* the decimal digits of an integer
RECURSIVE Digits(_)
Digits(n) ==
    IF n < 0 THEN <<"-">> \o Digits(0 - n)
    ELSE IF n < 10 THEN <<(<<"0", "1", "2", "3", "4", "5", "6", "7", "8", "9">>)[n + 1]>>
    ELSE Digits(n \div 10) \o Digits(n % 10)

\* a form carries text only: a number arrives as the string of its digits
FormValue(v) == IF v.t = "number" /\ v.n % 10 = 0 THEN JStr(Digits(v.n \div 10)) ELSE v

urlencodedParsed(x) ==
    [x EXCEPT !.sig = "next", !.parsed = TRUE,
              !.body = [f \in DOMAIN x.req.body |-> FormValue(x.req.body[f])]]

\* index.ts:85-99  the error middleware for malformed JSON
jsonErrorHandler(x) ==
    IF x.err = "SyntaxError"
    THEN [x EXCEPT !.sig = "end", !.err = "none",
                   !.res = SendJson(@, 400, FALSE, "INVALID_JSON", "Invalid JSON format",
                                    [kind |-> "none"])]
    ELSE x

\* index.ts:102-112  GET /api/health
healthHandler(x) ==
    LET uptime == FloorDiv(x.now - startTime, 1000)
    IN EnvelopeSuccess(x, [kind |-> "health", ok |-> TRUE, uptime |-> uptime],
                       "Server is healthy", "")

\* index.ts:115-120  GET /api/diag/log-level
diagHandler(x) ==
    EnvelopeSuccess(x, [kind |-> "diag"], "Diagnostics endpoint ready", "")

\* index.ts:371-373  GET /
rootHandler(x) ==
    [x EXCEPT !.sig = "end", !.res = [@ EXCEPT !.writes = @ + 1, !.ok = FALSE,
                                              !.data = [kind |-> "text"]]]

\* errorHandler.ts:175-195  apiNotFoundHandler, mounted at /api: the req.path
\* it reads is the path below the mount point
apiNotFoundHandler(x) ==
    [x EXCEPT !.sig = "end",
              !.res = SendJson(@, 404, FALSE, "ENDPOINT_NOT_FOUND", "API endpoint not found",
                               [kind |-> "notfound", path |-> Tail(x.req.path),
                                method |-> x.req.method])]

\* errorHandler.ts:7-42 (the page sent to non-API requests is "html")
errorHandler(x) ==
    LET isApiRequest == Len(x.req.path) >= 2 /\ x.req.path[1] = "api"
    IN IF isApiRequest
       THEN [x EXCEPT !.sig = "end", !.err = "none",
                      !.res = SendJson(@, 500, FALSE, "INTERNAL_ERROR",
                                       IF x.env = "production"
                                       THEN "Internal server error" ELSE x.err,
                                       IF x.env = "development"
                                       THEN [kind |-> "stack", stack |-> x.err]
                                       ELSE [kind |-> "none"])]
       ELSE [x EXCEPT !.sig = "end", !.err = "none",
                      !.res = [@ EXCEPT !.writes = @ + 1, !.status = 500, !.ok = FALSE,
                                        !.data = [kind |-> "html",
                                                  details |-> x.env = "development"]]]

\* express's own last handler: 404 for an unmatched request
finalHandler(x) ==
    [x EXCEPT !.sig = "end",
              !.res = [@ EXCEPT !.writes = @ + 1, !.status = 404, !.ok = FALSE,
                                !.data = [kind |-> "html"]]]

\* validateContentType that only asks for a body
validateContentType_anyBody(x) ==
    IF ~x.req.hasBody
    THEN [x EXCEPT !.sig = "end",
                   !.res = SendJson(@, 400, FALSE, "INVALID_CONTENT_TYPE",
                                    "Content-Type must be application/json",
                                    [kind |-> "none"])]
    ELSE x

\* validation/middleware.ts:36-49  validateContentType
validateContentType(x) ==
    IF ~IsJson(x.req)
    THEN [x EXCEPT !.sig = "end",
                   !.res = SendJson(@, 400, FALSE, "INVALID_CONTENT_TYPE",
                                    "Content-Type must be application/json",
                                    [kind |-> "none"])]
    ELSE x

-----------------------------------------------------------------------------
(* src/validation/schemas.ts: what schema.parse(body) does.  A parse yields *)
(* the issues in the order zod reports them, and the validated data.        *)

\* zod's message for a value of the wrong type
Expected(want, v) ==
    IF v.t = "undefined" THEN "Required" ELSE "Expected " \o want \o ", received " \o v.t

T_default == <<"d", "e", "f", "a", "u", "l", "t">>
T_professional == <<"p", "r", "o", "f", "e", "s", "s", "i", "o", "n", "a", "l">>
T_casual == <<"c", "a", "s", "u", "a", "l">>
T_funny == <<"f", "u", "n", "n", "y">>
Tones == {T_default, T_professional, T_casual, T_funny}

\* CaptionsTranscriptIssues with the refine placed before min and max
CaptionsTranscriptIssues_refineFirst(v) ==
    IF v.t # "string" THEN <<Expected("string", v)>>
    ELSE (IF ~(Len(Trim(v.s)) > 0)
          THEN <<"transcript cannot be empty or only whitespace">> ELSE <<>>)
      \o (IF Len(v.s) < 1
          THEN <<"transcript is required and must be a non-empty string">> ELSE <<>>)
      \o (IF Len(v.s) > 10000
          THEN <<"transcript is too long (max 10,000 characters)">> ELSE <<>>)

\* schemas.ts:5-11  transcript: string, min(1), max(10000), then the refine
CaptionsTranscriptIssues(v) ==
    IF v.t # "string" THEN <<Expected("string", v)>>
    ELSE (IF Len(v.s) < 1
          THEN <<"transcript is required and must be a non-empty string">> ELSE <<>>)
      \o (IF Len(v.s) > 10000
          THEN <<"transcript is too long (max 10,000 characters)">> ELSE <<>>)
      \o (IF ~(Len(Trim(v.s)) > 0)
          THEN <<"transcript cannot be empty or only whitespace">> ELSE <<>>)

\* schemas.ts:12-19  tone: enum with its own error map, optional, default
CaptionsToneIssues(v) ==
    IF v.t = "undefined" THEN <<>>
    ELSE IF v.t = "string" /\ v.s \in Tones THEN <<>>
    ELSE <<"tone must be one of: default, professional, casual, funny">>

\* CaptionsMaxLenIssues with z.coerce.number(): a non-number passes the type check
CaptionsMaxLenIssues_coerce(v) ==
    IF v.t # "number" THEN <<>>
    ELSE (IF v.n % 10 # 0 THEN <<"maxLen must be an integer">> ELSE <<>>)
      \o (IF v.n < 10 * 10 THEN <<"maxLen must be at least 10">> ELSE <<>>)
      \o (IF v.n > 500 * 10 THEN <<"maxLen must be at most 500">> ELSE <<>>)

\* schemas.ts:20-26  maxLen: number, int, min(10), max(500), optional, default
\* (a number is held in tenths)
CaptionsMaxLenIssues(v) ==
    IF v.t = "undefined" THEN <<>>
    ELSE IF v.t # "number" THEN <<Expected("number", v)>>
    ELSE (IF v.n % 10 # 0 THEN <<"maxLen must be an integer">> ELSE <<>>)
      \o (IF v.n < 10 * 10 THEN <<"maxLen must be at least 10">> ELSE <<>>)
      \o (IF v.n > 500 * 10 THEN <<"maxLen must be at most 500">> ELSE <<>>)

\* schemas.ts:4-27  captionsSchema.parse
captionsSchema(body) ==
    [issues |-> CaptionsTranscriptIssues(body.transcript)
                \o CaptionsToneIssues(body.tone)
                \o CaptionsMaxLenIssues(body.maxLen),
     data |-> [f \in BodyFields |->
                 CASE f = "transcript" -> body.transcript
                   [] f = "tone" -> IF body.tone.t = "undefined" THEN JStr(T_default)
                                    ELSE body.tone
                   [] f = "maxLen" -> IF body.maxLen.t = "undefined" THEN JInt(120)
                                      ELSE body.maxLen
                   [] OTHER -> Undef]]

\* an optional string of at most max characters: <<aborted, issues>>
OptionalString(v, max, message) ==
    IF v.t = "undefined" THEN <<FALSE, <<>>>>
    ELSE IF v.t # "string" THEN <<TRUE, <<Expected("string", v)>>>>
    ELSE IF Len(v.s) > max THEN <<FALSE, <<message>>>>
    ELSE <<FALSE, <<>>>>

\* schemas.ts:48-54  captions: record of strings of at most 10000 characters
RECURSIVE RecordIssues(_, _)
RecordIssues(entries, i) ==
    IF i > Len(entries) THEN <<FALSE, <<>>>>
    ELSE LET here == IF entries[i].v.t # "string"
                     THEN <<TRUE, <<Expected("string", entries[i].v)>>>>
                     ELSE IF Len(entries[i].v.s) > 10000
                     THEN <<FALSE, <<"caption value is too long (max 10,000 characters)">>>>
                     ELSE <<FALSE, <<>>>>
             rest == RecordIssues(entries, i + 1)
         IN <<here[1] \/ rest[1], here[2] \o rest[2]>>

OptionalRecord(v) ==
    IF v.t = "undefined" THEN <<FALSE, <<>>>>
    ELSE IF v.t # "object" THEN <<TRUE, <<Expected("object", v)>>>>
    ELSE RecordIssues(v.o, 1)

\* schemas.ts:57-66  the refinement: at least one content field
ExportHasContent(data) ==
    \/ Truthy(data.transcript)
    \/ Truthy(data.tweet)
    \/ Truthy(data.instagram)
    \/ Truthy(data.youtube)
    \/ (Truthy(data.captions) /\ Len(data.captions.o) > 0)

\* exportZipSchema with the refinement evaluated before the fields
exportZipSchema_refineFirst(body) ==
    LET a == OptionalString(body.transcript, 50000,
                            "transcript is too long (max 50,000 characters)")
        b == OptionalString(body.tweet, 10000, "tweet is too long (max 10,000 characters)")
        c == OptionalString(body.instagram, 10000,
                            "instagram is too long (max 10,000 characters)")
        d == OptionalString(body.youtube, 10000,
                            "youtube is too long (max 10,000 characters)")
        e == OptionalRecord(body.captions)
        aborted == a[1] \/ b[1] \/ c[1] \/ d[1] \/ e[1]
        data == [f \in BodyFields |->
                    IF f \in {"transcript", "tweet", "instagram", "youtube", "captions"}
                    THEN body[f] ELSE Undef]
        fieldIssues == a[2] \o b[2] \o c[2] \o d[2] \o e[2]
    IN [issues |-> (IF ~ExportHasContent(data)
                    THEN <<"At least one content field is required">> ELSE <<>>)
                   \o fieldIssues,
        data |-> data]

\* schemas.ts:30-71  exportZipSchema.parse: the refinement runs unless a
\* field has the wrong type (which aborts the object's parse)
exportZipSchema(body) ==
    LET a == OptionalString(body.transcript, 50000,
                            "transcript is too long (max 50,000 characters)")
        b == OptionalString(body.tweet, 10000, "tweet is too long (max 10,000 characters)")
        c == OptionalString(body.instagram, 10000,
                            "instagram is too long (max 10,000 characters)")
        d == OptionalString(body.youtube, 10000,
                            "youtube is too long (max 10,000 characters)")
        e == OptionalRecord(body.captions)
        aborted == a[1] \/ b[1] \/ c[1] \/ d[1] \/ e[1]
        data == [f \in BodyFields |->
                    IF f \in {"transcript", "tweet", "instagram", "youtube", "captions"}
                    THEN body[f] ELSE Undef]
        fieldIssues == a[2] \o b[2] \o c[2] \o d[2] \o e[2]
    IN [issues |-> fieldIssues
                   \o (IF ~aborted /\ ~ExportHasContent(data)
                       THEN <<"At least one content field is required">> ELSE <<>>),
        data |-> data]

\* validation/middleware.ts:5-33  validateSchema(schema)
\* parsed is schema.parse(req.body): its issues, or the validated data
validateSchema(x, parsed) ==
    IF parsed.issues = <<>>
    THEN [x EXCEPT !.body = parsed.data]
    ELSE LET firstError == parsed.issues[1]
         IN [x EXCEPT !.sig = "end",
                      !.res = SendJson(@, 400, FALSE, "VALIDATION_ERROR", firstError,
                                       [kind |-> "none"])]

-----------------------------------------------------------------------------
(* index.ts:123-146  POST /api/captions *)

W_MOCK == <<"M", "O", "C", "K", ":", " ">>
W_forge == <<" ", "#", "f", "o", "r", "g", "e", " ", "#", "c", "r", "e", "a", "t", "o", "r", "s">>
\* " \u2014 generated with Forge" (the em dash is written "-")
W_generated == <<" ", "-", " ", "g", "e", "n", "e", "r", "a", "t", "e", "d", " ", "w", "i", "t", "h", " ", "F", "o", "r", "g", "e">>

\* SliceLength without the upper limit
SliceLength_noUpper(maxLen) == Max(20, maxLen)

\* index.ts:131  Math.max(20, Math.min(maxLen, 180))
SliceLength(maxLen) == Max(20, Min(maxLen, 180))

\* CaptionBase without the trim
CaptionBase_noTrim(transcript, maxLen) ==
    Collapse(Slice(transcript, SliceLength(maxLen)))

\* index.ts:130-133
CaptionBase(transcript, maxLen) ==
    Trim(Collapse(Slice(transcript, SliceLength(maxLen))))

\* captionsHandler with a shorter slice for the tone "funny"
captionsHandler_byTone(x) ==
    LET transcript == x.body.transcript.s
        maxLen == x.body.maxLen.n \div 10
        base == CaptionBase(transcript, IF x.body.tone = JStr(T_funny) THEN 20 ELSE maxLen)
    IN EnvelopeSuccess(x,
           [kind |-> "captions",
            tweet |-> W_MOCK \o base \o (IF Len(base) > 0 THEN <<".">> ELSE <<>>),
            instagram |-> W_MOCK \o base \o W_forge,
            youtube |-> W_MOCK \o base \o W_generated],
           "Captions generated successfully", "")

\* index.ts:127-145  POST /api/captions handler
captionsHandler(x) ==
    LET transcript == x.body.transcript.s
        maxLen == x.body.maxLen.n \div 10
        base == CaptionBase(transcript, maxLen)
    IN EnvelopeSuccess(x,
           [kind |-> "captions",
            tweet |-> W_MOCK \o base \o (IF Len(base) > 0 THEN <<".">> ELSE <<>>),
            instagram |-> W_MOCK \o base \o W_forge,
            youtube |-> W_MOCK \o base \o W_generated],
           "Captions generated successfully", "")

-----------------------------------------------------------------------------
(* index.ts:213-298  POST /api/log *)

\* index.ts:65  limits.fileSize
fileSize == 200 * 1024 * 1024

UpperCase == <<"A", "B", "C", "D", "E", "F", "G", "H", "I", "J", "K", "L", "M",
               "N", "O", "P", "Q", "R", "S", "T", "U", "V", "W", "X", "Y", "Z">>
LowerCase == <<"a", "b", "c", "d", "e", "f", "g", "h", "i", "j", "k", "l", "m",
               "n", "o", "p", "q", "r", "s", "t", "u", "v", "w", "x", "y", "z">>

\* String.prototype.toLowerCase()
ToLowerCase(str) ==
    [i \in 1..Len(str) |->
        IF \E k \in 1..Len(UpperCase) : UpperCase[k] = str[i]
        THEN LowerCase[CHOOSE k \in 1..Len(UpperCase) : UpperCase[k] = str[i]]
        ELSE str[i]]

\* String.prototype.startsWith, endsWith
StartsWith(str, prefix) ==
    Len(prefix) <= Len(str) /\ SubSeq(str, 1, Len(prefix)) = prefix
EndsWith(str, suffix) ==
    Len(suffix) <= Len(str) /\ SubSeq(str, Len(str) - Len(suffix) + 1, Len(str)) = suffix

\* index.ts:162
allowedTypes ==
    {<<"a", "u", "d", "i", "o", "/">>, <<"v", "i", "d", "e", "o", "/">>,
     <<"a", "p", "p", "l", "i", "c", "a", "t", "i", "o", "n", "/",
       "o", "c", "t", "e", "t", "-", "s", "t", "r", "e", "a", "m">>}

\* index.ts:168-177
allowedExtensions ==
    {<<".", "m", "p", "3">>, <<".", "w", "a", "v">>, <<".", "m", "p", "4">>,
     <<".", "m", "o", "v">>, <<".", "a", "v", "i">>, <<".", "m", "k", "v">>,
     <<".", "m", "4", "a">>, <<".", "a", "a", "c">>}

\* index.ts:151  upload.single("file"): a multipart body is read (the
\* middleware waits for it); any other request goes on without req.file
uploadSingle(x) ==
    IF IsMultipart(x.req) THEN [x EXCEPT !.sig = "wait", !.at = "upload"] ELSE x

\* multer once the body is read: next(err) for a body that is not
\* multipart text, a file part under another field name, or a file over
\* limits.fileSize; otherwise req.file is the part named "file", if any
uploadParsed(x) ==
    LET f == x.req.file
    IN IF x.req.raw = "malformed" THEN Throw(x, "Unexpected end of form")
       ELSE IF ~f.present THEN [x EXCEPT !.sig = "next"]
       ELSE IF f.fieldname # "file" THEN Throw(x, "Unexpected field")
       ELSE IF f.size > fileSize THEN Throw(x, "File too large")
       ELSE [x EXCEPT !.sig = "next", !.file = f]

\* transcribeHandler with the size test in front of the type test
transcribeHandler_sizeOnly(x) ==
    IF ~x.file.present
    THEN EnvelopeError(x, "No file provided. Please upload a file.", "MISSING_FILE", 400)
    ELSE IF x.file.size = 0
    THEN EnvelopeError(x, "File is empty", "EMPTY_FILE", 400)
    ELSE EnvelopeSuccess(x, [kind |-> "transcribe", originalName |-> x.file.originalname,
                             size |-> x.file.size, mimeType |-> x.file.mimetype],
                         "Transcription completed successfully", "")

\* index.ts:152-209  POST /api/transcribe handler
transcribeHandler(x) ==
    IF ~x.file.present
    THEN EnvelopeError(x, "No file provided. Please upload a file.", "MISSING_FILE", 400)
    ELSE LET isValidType ==
                 \E type \in allowedTypes : StartsWith(x.file.mimetype, type)
             hasValidExtension ==
                 \E ext \in allowedExtensions :
                     EndsWith(ToLowerCase(x.file.originalname), ext)
         IN IF ~isValidType /\ ~hasValidExtension
            THEN EnvelopeError(x, "Invalid file type. Please upload an audio or video file.",
                               "INVALID_FILE_TYPE", 400)
            ELSE IF x.file.size = 0
            THEN EnvelopeError(x, "File is empty", "EMPTY_FILE", 400)
            ELSE EnvelopeSuccess(x, [kind |-> "transcribe",
                                     originalName |-> x.file.originalname,
                                     size |-> x.file.size,
                                     mimeType |-> x.file.mimetype],
                                 "Transcription completed successfully", "")

IsDigit(ch) == ch \in {"0", "1", "2", "3", "4", "5", "6", "7", "8", "9"}

\* new Date(ts).toISOString() does not throw: ts has the form
\* YYYY-MM-DDTHH:mm:ss.sssZ (the other forms Date accepts are not modelled)
ParsesAsDate(ts) ==
    /\ Len(ts) = 24
    /\ \A i \in 1..24 :
          CASE i \in {5, 8} -> ts[i] = "-"
            [] i = 11 -> ts[i] = "T"
            [] i \in {14, 17} -> ts[i] = ":"
            [] i = 20 -> ts[i] = "."
            [] i = 24 -> ts[i] = "Z"
            [] OTHER -> IsDigit(ts[i])

L_debug == <<"d", "e", "b", "u", "g">>
L_info == <<"i", "n", "f", "o">>
L_warn == <<"w", "a", "r", "n">>
L_error == <<"e", "r", "r", "o", "r">>
validLevels == {L_debug, L_info, L_warn, L_error}

\* logHandler reporting an unparsable timestamp as INVALID_TS and a level
\* outside validLevels as INVALID_LEVEL
logHandler_sixCodes(x) ==
    LET ts == x.body.ts
        level == x.body.level
        event == x.body.event
        userAnonId == x.body.userAnonId
        payload == x.body.payload
    IN IF ~Truthy(ts) \/ ts.t # "string"
       THEN EnvelopeError(x, "Missing or invalid required field: ts (must be ISO timestamp string)",
                          "INVALID_TS", 400)
       ELSE IF ~Truthy(level) \/ level.t # "string"
       THEN EnvelopeError(x, "Missing or invalid required field: level (must be a string)",
                          "INVALID_LEVEL", 400)
       ELSE IF ~Truthy(event) \/ event.t # "string"
       THEN EnvelopeError(x, "Missing or invalid required field: event (must be a string)",
                          "INVALID_EVENT", 400)
       ELSE IF ~Truthy(userAnonId) \/ userAnonId.t # "string"
       THEN EnvelopeError(x, "Missing or invalid required field: userAnonId (must be a string)",
                          "INVALID_USER_ANON_ID", 400)
       ELSE IF Truthy(payload) /\ payload.t # "object"
       THEN EnvelopeError(x, "payload field must be an object", "INVALID_PAYLOAD", 400)
       ELSE IF ~ParsesAsDate(ts.s)
       THEN EnvelopeError(x, "ts field must be a valid ISO timestamp string",
                          "INVALID_TS", 400)
       ELSE IF level.s \notin validLevels
       THEN EnvelopeError(x, "level must be one of: debug, info, warn, error",
                          "INVALID_LEVEL", 400)
       ELSE IF Len(event.s) > 100
       THEN EnvelopeError(x, "event field is too long (max 100 characters)",
                          "FIELD_TOO_LONG", 400)
       ELSE IF Len(userAnonId.s) > 100
       THEN EnvelopeError(x, "userAnonId field is too long (max 100 characters)",
                          "FIELD_TOO_LONG", 400)
       ELSE LET logEntry == [ts |-> ts, level |-> level, event |-> event,
                             userAnonId |-> userAnonId,
                             payload |-> IF Truthy(payload) THEN payload ELSE JObj(<<>>)]
            IN EnvelopeSuccess([x EXCEPT !.logged = Append(@, logEntry)],
                               [kind |-> "none"], "Log entry recorded successfully", "")

\* logHandler refusing a field of 100 characters already
logHandler_atHundred(x) ==
    LET ts == x.body.ts
        level == x.body.level
        event == x.body.event
        userAnonId == x.body.userAnonId
        payload == x.body.payload
    IN IF ~Truthy(ts) \/ ts.t # "string"
       THEN EnvelopeError(x, "Missing or invalid required field: ts (must be ISO timestamp string)",
                          "INVALID_TS", 400)
       ELSE IF ~Truthy(level) \/ level.t # "string"
       THEN EnvelopeError(x, "Missing or invalid required field: level (must be a string)",
                          "INVALID_LEVEL", 400)
       ELSE IF ~Truthy(event) \/ event.t # "string"
       THEN EnvelopeError(x, "Missing or invalid required field: event (must be a string)",
                          "INVALID_EVENT", 400)
       ELSE IF ~Truthy(userAnonId) \/ userAnonId.t # "string"
       THEN EnvelopeError(x, "Missing or invalid required field: userAnonId (must be a string)",
                          "INVALID_USER_ANON_ID", 400)
       ELSE IF Truthy(payload) /\ payload.t # "object"
       THEN EnvelopeError(x, "payload field must be an object", "INVALID_PAYLOAD", 400)
       ELSE IF ~ParsesAsDate(ts.s)
       THEN EnvelopeError(x, "ts field must be a valid ISO timestamp string",
                          "INVALID_TIMESTAMP", 400)
       ELSE IF level.s \notin validLevels
       THEN EnvelopeError(x, "level must be one of: debug, info, warn, error",
                          "INVALID_LOG_LEVEL", 400)
       ELSE IF Len(event.s) >= 100
       THEN EnvelopeError(x, "event field is too long (max 100 characters)",
                          "FIELD_TOO_LONG", 400)
       ELSE IF Len(userAnonId.s) >= 100
       THEN EnvelopeError(x, "userAnonId field is too long (max 100 characters)",
                          "FIELD_TOO_LONG", 400)
       ELSE LET logEntry == [ts |-> ts, level |-> level, event |-> event,
                             userAnonId |-> userAnonId,
                             payload |-> IF Truthy(payload) THEN payload ELSE JObj(<<>>)]
            IN EnvelopeSuccess([x EXCEPT !.logged = Append(@, logEntry)],
                               [kind |-> "none"], "Log entry recorded successfully", "")

\* index.ts:213-298  POST /api/log
logHandler(x) ==
    LET ts == x.body.ts
        level == x.body.level
        event == x.body.event
        userAnonId == x.body.userAnonId
        payload == x.body.payload
    IN IF ~Truthy(ts) \/ ts.t # "string"
       THEN EnvelopeError(x, "Missing or invalid required field: ts (must be ISO timestamp string)",
                          "INVALID_TS", 400)
       ELSE IF ~Truthy(level) \/ level.t # "string"
       THEN EnvelopeError(x, "Missing or invalid required field: level (must be a string)",
                          "INVALID_LEVEL", 400)
       ELSE IF ~Truthy(event) \/ event.t # "string"
       THEN EnvelopeError(x, "Missing or invalid required field: event (must be a string)",
                          "INVALID_EVENT", 400)
       ELSE IF ~Truthy(userAnonId) \/ userAnonId.t # "string"
       THEN EnvelopeError(x, "Missing or invalid required field: userAnonId (must be a string)",
                          "INVALID_USER_ANON_ID", 400)
       ELSE IF Truthy(payload) /\ payload.t # "object"
       THEN EnvelopeError(x, "payload field must be an object", "INVALID_PAYLOAD", 400)
       ELSE IF ~ParsesAsDate(ts.s)
       THEN EnvelopeError(x, "ts field must be a valid ISO timestamp string",
                          "INVALID_TIMESTAMP", 400)
       ELSE IF level.s \notin validLevels
       THEN EnvelopeError(x, "level must be one of: debug, info, warn, error",
                          "INVALID_LOG_LEVEL", 400)
       ELSE IF Len(event.s) > 100
       THEN EnvelopeError(x, "event field is too long (max 100 characters)",
                          "FIELD_TOO_LONG", 400)
       ELSE IF Len(userAnonId.s) > 100
       THEN EnvelopeError(x, "userAnonId field is too long (max 100 characters)",
                          "FIELD_TOO_LONG", 400)
       ELSE LET logEntry == [ts |-> ts, level |-> level, event |-> event,
                             userAnonId |-> userAnonId,
                             payload |-> IF Truthy(payload) THEN payload ELSE JObj(<<>>)]
            IN EnvelopeSuccess([x EXCEPT !.logged = Append(@, logEntry)],
                               [kind |-> "none"], "Log entry recorded successfully", "")

-----------------------------------------------------------------------------
(* index.ts:301-368  POST /api/exportZip *)

\* index.ts:333-341  one entry per caption whose value is a non-empty string
RECURSIVE CaptionFiles(_, _)
CaptionFiles(entries, i) ==
    IF i > Len(entries) THEN <<>>
    ELSE (IF Truthy(entries[i].v) /\ entries[i].v.t = "string"
          THEN <<[name |-> entries[i].k \o ".txt", content |-> entries[i].v.s]>>
          ELSE <<>>)
         \o CaptionFiles(entries, i + 1)

\* NamedFile without the test for an empty value
NamedFile_always(v, name) ==
    IF v.t = "string" THEN <<[name |-> name, content |-> v.s]>> ELSE <<>>

\* index.ts:313-330  one entry per named field that is truthy
NamedFile(v, name) ==
    IF Truthy(v) THEN <<[name |-> name, content |-> v.s]>> ELSE <<>>

\* index.ts:306-341  the entries appended to the archive, in order
ExportEntries(body) ==
    NamedFile(body.transcript, "transcript.txt")
    \o NamedFile(body.tweet, "tweet.txt")
    \o NamedFile(body.instagram, "instagram.txt")
    \o NamedFile(body.youtube, "youtube.txt")
    \o (IF Truthy(body.captions) /\ body.captions.t = "object"
        THEN CaptionFiles(body.captions.o, 1) ELSE <<>>)

\* index.ts:305-367  the handler appends the entries, registers the "end"
\* and "error" callbacks and finalizes the archive; it answers in a callback
exportZipHandler(x) ==
    LET entries == ExportEntries(x.body)
    IN [x EXCEPT !.zip = entries,
                 !.files = [i \in 1..Len(entries) |-> entries[i].name],
                 !.archive = "open",
                 !.sig = "wait", !.at = "zip"]

\* index.ts:347-360  zip.on("end")
\* when the response was already sent, res.json throws ERR_HTTP_HEADERS_SENT
\* out of the listener: nothing catches it
zipEnd(x) ==
    LET y == Ran([x EXCEPT !.archive = "ended"], "zipEnd")
    IN IF y.res.writes > 0
       THEN [y EXCEPT !.res.writes = @ + 1, !.err = "ERR_HTTP_HEADERS_SENT",
                      !.sig = "uncaught"]
       ELSE EnvelopeSuccess(y, [kind |-> "zip", files |-> y.files, zip |-> y.zip],
                            "ZIP file generated successfully", "")

\* zip.on("error") with a listener that answers nothing
zipError_unanswered(x) == [x EXCEPT !.sig = "end"]

\* index.ts:362  zip.on("error", next)
zipError(x) == Throw(x, "ArchiverError")

-----------------------------------------------------------------------------
(* The routes: each runs its middlewares in order until one answers *)

\* index.ts:123-127
captionsRoute(x) ==
    LET a == validateContentType(Ran(x, "validateContentType"))
        b == validateSchema(Ran(a, "validateSchema"), captionsSchema(a.body))
    IN IF a.sig # "next" THEN a
       ELSE IF b.sig # "next" THEN b
       ELSE captionsHandler(Ran(b, "captionsHandler"))

\* index.ts:301-305
exportZipRoute(x) ==
    LET a == validateContentType(Ran(x, "validateContentType"))
        b == validateSchema(Ran(a, "validateSchema"), exportZipSchema(a.body))
    IN IF a.sig # "next" THEN a
       ELSE IF b.sig # "next" THEN b
       ELSE exportZipHandler(Ran(b, "exportZipHandler"))

\* index.ts:149-152
transcribeRoute(x) ==
    LET a == uploadSingle(Ran(x, "upload"))
    IN IF a.sig # "next" THEN a
       ELSE transcribeHandler(Ran(a, "transcribeHandler"))

\* the rest of the route once multer has read the body
transcribeRouteParsed(x) ==
    LET a == uploadParsed(x)
    IN IF a.err # "none" THEN a
       ELSE transcribeHandler(Ran(a, "transcribeHandler"))

\* index.ts:213
logRoute(x) == logHandler(Ran(x, "logHandler"))

-----------------------------------------------------------------------------
(* The application's stack, in registration order (the routes of index.ts  *)
(* and express's own last handler), and express's dispatch over it          *)

Stack == <<"cors", "json", "urlencoded", "rateLimiter", "envelopeMiddleware",
           "jsonErrorHandler", "health", "diag", "captions", "transcribe", "log",
           "exportZip",
           "root", "apiNotFoundHandler", "errorHandler", "finalHandler">>

Index(name) == CHOOSE i \in 1..Len(Stack) : Stack[i] = name

IsRoute(x, method, path) ==
    x.req.method = method /\ LowerPath(x.req.path) = LowerPath(path)

\* Matches with the rate limiter mounted at the root
Matches_limitAll(name, x) ==
    CASE name \in {"jsonErrorHandler", "errorHandler"} -> x.err # "none"
      [] name = "finalHandler" -> TRUE
      [] x.err # "none" -> FALSE
      [] name \in {"cors", "json", "urlencoded"} -> TRUE
      [] name = "rateLimiter" -> TRUE
      [] name \in {"envelopeMiddleware", "apiNotFoundHandler"} ->
            UnderApi(x.req.path)
      [] name = "health" -> IsRoute(x, "GET", <<"api", "health">>)
      [] name = "diag" -> IsRoute(x, "GET", <<"api", "diag", "log-level">>)
      [] name = "captions" -> IsRoute(x, "POST", <<"api", "captions">>)
      [] name = "transcribe" -> IsRoute(x, "POST", <<"api", "transcribe">>)
      [] name = "log" -> IsRoute(x, "POST", <<"api", "log">>)
      [] name = "exportZip" -> IsRoute(x, "POST", <<"api", "exportZip">>)
      [] name = "root" -> IsRoute(x, "GET", <<>>)
      [] OTHER -> FALSE

\* does the layer run for this request?  An error middleware runs only when
\* an error travels, every other layer only when none does
Matches(name, x) ==
    CASE name \in {"jsonErrorHandler", "errorHandler"} -> x.err # "none"
      [] name = "finalHandler" -> TRUE
      [] x.err # "none" -> FALSE
      [] name \in {"cors", "json", "urlencoded"} -> TRUE
      [] name \in {"rateLimiter", "envelopeMiddleware", "apiNotFoundHandler"} ->
            UnderApi(x.req.path)
      [] name = "health" -> IsRoute(x, "GET", <<"api", "health">>)
      [] name = "diag" -> IsRoute(x, "GET", <<"api", "diag", "log-level">>)
      [] name = "captions" -> IsRoute(x, "POST", <<"api", "captions">>)
      [] name = "transcribe" -> IsRoute(x, "POST", <<"api", "transcribe">>)
      [] name = "log" -> IsRoute(x, "POST", <<"api", "log">>)
      [] name = "exportZip" -> IsRoute(x, "POST", <<"api", "exportZip">>)
      [] name = "root" -> IsRoute(x, "GET", <<>>)
      [] OTHER -> FALSE

Apply(name, x) ==
    CASE name = "cors" -> cors(x)
      [] name = "json" -> jsonParser(x)
      [] name = "urlencoded" -> urlencodedParser(x)
      [] name = "rateLimiter" -> rateLimiter(x)
      [] name = "envelopeMiddleware" -> envelopeMiddleware(x)
      [] name = "jsonErrorHandler" -> jsonErrorHandler(x)
      [] name = "health" -> healthHandler(x)
      [] name = "diag" -> diagHandler(x)
      [] name = "captions" -> captionsRoute(x)
      [] name = "transcribe" -> transcribeRoute(x)
      [] name = "log" -> logRoute(x)
      [] name = "exportZip" -> exportZipRoute(x)
      [] name = "root" -> rootHandler(x)
      [] name = "apiNotFoundHandler" -> apiNotFoundHandler(x)
      [] name = "errorHandler" -> errorHandler(x)
      [] name = "finalHandler" -> finalHandler(x)

\* run the layers from the i-th on, until one answers or waits
RECURSIVE Run(_, _)
Run(i, x) ==
    IF x.sig # "next" \/ i > Len(Stack) THEN x
    ELSE IF Matches(Stack[i], x) THEN Run(i + 1, Apply(Stack[i], Ran(x, Stack[i])))
    ELSE Run(i + 1, x)

-----------------------------------------------------------------------------
(* The state machine *)

CtxFields == DOMAIN NewCtx(NoReq)

\* the running request: its context together with the process state it reads
Running == ctx @@ [req |-> req, now |-> now, store |-> rateLimitStore,
                   admits |-> windowAdmits, env |-> NODE_ENV]

\* the arguments of res.envelope.success (Undef for one not given), and
\* what res.json got: the status of the response and the body, a function
\* from the names of the fields the body has to their values
Args(data, message, code) ==
    [made |-> TRUE, data |-> data, message |-> message, code |-> code]
NoArgs == [made |-> FALSE, data |-> Undef, message |-> Undef, code |-> Undef]
NoBody == [done |-> FALSE, status |-> NoResponse.status, body |-> [f \in {} |-> Undef]]

\* no res.envelope.success call is looked at on its own, and no requests
\* are held in flight together
NoCall == call = NoArgs /\ sent = NoBody /\ flights = <<>> /\ admitted = <<>>

\* write back what a run left
Commit(x) ==
    /\ UNCHANGED aside
    /\ rateLimitStore' = x.store
    /\ windowAdmits' = x.admits
    /\ ctx' = [f \in CtxFields |-> x[f]]
    /\ pc' = IF x.sig = "wait" THEN x.at
             ELSE IF x.sig = "uncaught" THEN "crashed"
             ELSE "done"

Init ==
    /\ now = 0
    /\ rateLimitStore = [c \in Clients |-> NoRecord]
    /\ req = NoReq
    /\ pc = "idle"
    /\ ctx = NewCtx(NoReq)
    /\ windowAdmits = [c \in Clients |-> 0]
    /\ NoCall
    /\ NODE_ENV \in Environments

\* a request arrives and runs through the stack
Request(r) ==
    /\ pc \in {"idle", "done"}
    /\ req' = r
    /\ UNCHANGED <<now, NODE_ENV>>
    /\ Commit(Run(1, NewCtx(r) @@ [req |-> r, now |-> now, store |-> rateLimitStore,
                                   admits |-> windowAdmits, env |-> NODE_ENV]))

\* express.json() has read the body
BodyParsed ==
    /\ pc = "json"
    /\ UNCHANGED <<now, req, NODE_ENV>>
    /\ Commit(Run(Index("json") + 1, jsonParsed(Running)))

\* express.urlencoded() has read the body
FormParsed ==
    /\ pc = "urlencoded"
    /\ UNCHANGED <<now, req, NODE_ENV>>
    /\ Commit(Run(Index("urlencoded") + 1, urlencodedParsed(Running)))

\* multer has read the multipart body
UploadParsed ==
    /\ pc = "upload"
    /\ UNCHANGED <<now, req, NODE_ENV>>
    /\ Commit(Run(Index("transcribe") + 1, transcribeRouteParsed(Running)))

\* the archive emits "end": the listener of index.ts:347 stays attached
\* after an "error" was emitted and answered
ZipEnd ==
    /\ ctx.archive = "open"
    /\ pc \in {"zip", "done"}
    /\ UNCHANGED <<now, req, NODE_ENV>>
    /\ Commit(zipEnd(Running))

\* the archive emits "error"
ZipError ==
    /\ pc = "zip"
    /\ UNCHANGED <<now, req, NODE_ENV>>
    /\ Commit(Run(Index("exportZip") + 1, zipError(Running)))

\* time passes
Tick ==
    /\ \E t \in Times : t > now /\ now' = t
    /\ UNCHANGED <<rateLimitStore, req, pc, ctx, windowAdmits, NODE_ENV>>
    /\ UNCHANGED aside

-----------------------------------------------------------------------------
(* The requests the specifications draw from *)

Get(c, path) == [client |-> c, method |-> "GET", path |-> path, hasBody |-> FALSE,
                 ctype |-> "", raw |-> "none", body |-> EmptyBody, file |-> NoFile]

Options(c, path) == [Get(c, path) EXCEPT !.method = "OPTIONS"]

\* a POST with a body of the declared type; raw is "ok" or "malformed"
Post(c, path, ctype, raw, body) ==
    [client |-> c, method |-> "POST", path |-> path, hasBody |-> TRUE,
     ctype |-> ctype, raw |-> raw, body |-> body, file |-> NoFile]

\* a multipart POST; file is its file part, or NoFile
Upload(c, path, raw, file) ==
    [client |-> c, method |-> "POST", path |-> path, hasBody |-> TRUE,
     ctype |-> "multipart/form-data", raw |-> raw, body |-> EmptyBody, file |-> file]

File(fieldname, originalname, mimetype, size) ==
    [present |-> TRUE, fieldname |-> fieldname, originalname |-> originalname,
     mimetype |-> mimetype, size |-> size]

\* a POST without a body
PostEmpty(c, path) == [Get(c, path) EXCEPT !.method = "POST"]

Str(n) == JStr(Rep("a", n))
S_hello == JStr(<<"h", "e", "l", "l", "o", " ", "w", "o", "r", "l", "d">>)
S_ts == JStr(<<"2", "0", "2", "5", "-", "1", "0", "-", "0", "1", "T", "1", "2", ":",
               "0", "0", ":", "0", "0", ".", "0", "0", "0", "Z">>)

\* the server right after its first request r arrived
\* the state after the first request of a process started with NODE_ENV = env
FirstRequestIn(r, env) ==
    LET x == Run(1, NewCtx(r) @@ [req |-> r, now |-> 0,
                                  store |-> [c \in Clients |-> NoRecord],
                                  admits |-> [c \in Clients |-> 0],
                                  env |-> env])
    IN /\ now = 0
       /\ NODE_ENV = env
       /\ req = r
       /\ rateLimitStore = x.store
       /\ windowAdmits = x.admits
       /\ NoCall
       /\ ctx = [f \in CtxFields |-> x[f]]
       /\ pc = IF x.sig = "wait" THEN x.at ELSE "done"

FirstRequest(r) == \E env \in Environments : FirstRequestIn(r, env)

-----------------------------------------------------------------------------
(* Spec: one client's requests to every route, within one window *)

PostPaths == {<<"api", "captions">>, <<"api", "exportZip">>, <<"api", "log">>,
              <<"api", "transcribe">>, <<"api", "nope">>}

\* file names and MIME types
N_mp3 == <<"a", ".", "m", "p", "3">>
N_txt == <<"a", ".", "t", "x", "t">>
M_audio == <<"a", "u", "d", "i", "o", "/", "m", "p", "e", "g">>
M_text == <<"t", "e", "x", "t", "/", "p", "l", "a", "i", "n">>

\* multipart requests: a good file, a text file, no file part, a file part
\* under another field name, a body cut short
UploadsOf(path) ==
    {Upload("c1", path, "ok", f) :
        f \in {File("file", N_mp3, M_audio, 1), File("file", N_txt, M_text, 1),
               File("audio", N_mp3, M_audio, 1), NoFile}}
    \cup {Upload("c1", path, "malformed", NoFile)}

\* a valid body and an invalid one for each JSON route
BodiesOf(path) ==
    CASE path = <<"api", "captions">> ->
            {Body(<<"transcript", S_hello, "maxLen", JInt(50)>>),
             Body(<<"transcript", S_hello, "maxLen", JInt(5)>>)}
      [] path = <<"api", "exportZip">> ->
            {Body(<<"transcript", S_hello, "tweet", Str(3)>>), EmptyBody}
      [] path = <<"api", "log">> ->
            {Body(<<"ts", S_ts, "level", JStr(L_info), "event", Str(5),
                    "userAnonId", Str(8)>>),
             Body(<<"ts", S_ts, "level", JStr(L_info), "event", Str(101),
                    "userAnonId", Str(8)>>)}
      [] OTHER -> {EmptyBody}

ReqsAll ==
    {Get("c1", p) : p \in {<<"api", "health">>, <<"api", "diag", "log-level">>,
                           <<"api", "nope">>, <<>>, <<"other">>}}
    \cup {Options("c1", <<"api", "captions">>)}
    \cup {PostEmpty("c1", p) : p \in PostPaths}
    \cup UNION {{Post("c1", p, ct, "ok", b) :
                    ct \in {"application/json", "text/plain",
                            "application/x-www-form-urlencoded"},
                    b \in BodiesOf(p)} : p \in PostPaths}
    \cup {Post("c1", p, "application/json", "malformed", EmptyBody) :
            p \in PostPaths \cup {<<"other">>}}
    \cup {Upload("c1", <<"api", "transcribe">>, "ok", f) :
            f \in {File("file", N_mp3, M_audio, 1), File("audio", N_mp3, M_audio, 1)}}

Arrive == \E r \in ReqsAll : Request(r)

Next == Arrive \/ BodyParsed \/ FormParsed \/ UploadParsed \/ ZipEnd \/ ZipError

Spec == Init /\ [][Next]_vars

-----------------------------------------------------------------------------
(* SpecFirst: the first request of a process, of any kind, to its end *)

ReqsFirst ==
    ReqsAll
    \cup {Get("c1", p) : p \in {<<"api">>, <<"api", "captions">>, <<"API", "health">>,
                                <<"API", "nope">>, <<"api", "transcribe">>}}
    \cup {Options("c1", <<"api", "nope">>)}
    \cup UploadsOf(<<"api", "transcribe">>) \cup UploadsOf(<<"API", "transcribe">>)
    \cup UploadsOf(<<"api", "nope">>)
    \cup {Post("c1", p, "application/json", "ok", Body(<<"transcript", S_hello>>)) :
            p \in {<<"API", "exportzip">>, <<"api", "exportzip">>,
                   <<"api", "exportZip", "more">>}}

InitFirst == \E r \in ReqsFirst : FirstRequest(r)

NextFirst == BodyParsed \/ FormParsed \/ UploadParsed \/ ZipEnd \/ ZipError

SpecFirst == InitFirst /\ [][NextFirst]_vars

-----------------------------------------------------------------------------
(* SpecRate: the rate limiter over time, the health checks of one client *)

ReqsRate == {Get("c1", <<"api", "health">>)}

ArriveRate == \E r \in ReqsRate : Request(r)

NextRate == ArriveRate \/ Tick

SpecRate == Init /\ [][NextRate]_vars

-----------------------------------------------------------------------------
(* SpecClients: the rate limiter and several clients, within one window *)

ReqsClients == {Get(c, <<"api", "health">>) : c \in Clients}

ArriveClients == \E r \in ReqsClients : Request(r)

NextClients == ArriveClients

SpecClients == Init /\ [][NextClients]_vars

-----------------------------------------------------------------------------
(* SpecCaptions: POST /api/captions applied to a family of bodies *)

\* whitespace runs of 0..MaxPad characters
MaxPad == 2

\* lead whitespace, a word, a gap, a second word, trailing spaces
Transcript(lead, w1, gap, w2, trail, ws) ==
    Rep(ws, lead) \o Rep("a", w1) \o Rep(ws, gap) \o Rep("b", w2) \o Rep(" ", trail)

Transcripts ==
    {Transcript(lead, w1, gap, w2, trail, ws) :
        lead \in 0..MaxPad, w1 \in {1, 19, 20, 21, 181}, gap \in 0..MaxPad,
        w2 \in {0, 3}, trail \in {0, 1}, ws \in {" ", "\n"}}

ValidMaxLens == {Undef, JInt(10), JInt(20), JInt(21), JInt(180), JInt(181), JInt(500)}
InvalidMaxLens == {JInt(9), JInt(501), JInt(0), JInt(-20), JNum(155), JNull, JBool(TRUE),
                   JStr(<<"2", "0">>)}
SomeTones == {Undef, JStr(T_funny), JStr(<<"s", "a", "d">>)}

CaptionBodies ==
    {Body(<<"transcript", JStr(t), "maxLen", m, "tone", tone>>) :
        t \in Transcripts, m \in ValidMaxLens, tone \in {Undef, JStr(T_funny)}}
    \cup {Body(<<"transcript", t, "maxLen", m, "tone", tone>>) :
            t \in {Undef, JStr(<<>>), JStr(<<" ", " ">>), JInt(5), Str(30),
                   S_hello},
            m \in InvalidMaxLens \cup {Undef, JInt(50)}, tone \in SomeTones}

\* every tone, with a transcript whose first 20 characters are whitespace
\* and with one that has none
ToneBodies ==
    {Body(<<"transcript", t, "maxLen", m, "tone", tone>>) :
        t \in {JStr(Rep(" ", 20) \o <<"a">>), S_hello},
        m \in {Undef, JInt(10), JInt(20), JInt(21)},
        tone \in {Undef} \cup {JStr(tone) : tone \in Tones}}

ReqsCaptions ==
    {Post("c1", <<"api", "captions">>, "application/json", "ok", b) :
        b \in CaptionBodies \cup ToneBodies}
    \cup {Post("c1", <<"api", "captions">>, "text/plain", "ok",
                Body(<<"transcript", S_hello, "maxLen", m>>)) : m \in {JInt(50), JInt(5)}}
    \cup {Post("c1", <<"api", "captions">>, "application/x-www-form-urlencoded", "ok",
                Body(<<"transcript", S_hello, "maxLen", m>>)) :
            m \in {JInt(20), JStr(<<"a", "b", "c">>)}}

InitCaptions == \E r \in ReqsCaptions : FirstRequest(r)

NextCaptions == BodyParsed \/ FormParsed

SpecCaptions == InitCaptions /\ [][NextCaptions]_vars

-----------------------------------------------------------------------------
(* SpecExport: POST /api/exportZip applied to a family of bodies *)

\* content strings of 0..MaxText characters
MaxText == 2

Texts == {Str(n) : n \in 0..MaxText}

CaptionValues == {Str(0), Str(MaxText), JInt(7)}

CaptionMaps ==
    {JObj(<<>>)}
    \cup {JObj(<<[k |-> key, v |-> v]>>) : key \in {"custom1", "tweet"}, v \in CaptionValues}
    \cup {JObj(<<[k |-> "custom1", v |-> v1], [k |-> "tweet", v |-> v2]>>) :
            v1 \in CaptionValues, v2 \in CaptionValues}

ExportBodies ==
    {Body(<<"transcript", a, "tweet", b, "instagram", c, "youtube", d, "captions", e>>) :
        a \in Texts \cup {Undef, JInt(5)},
        b \in {Undef, Str(0), Str(MaxText)},
        c \in {Undef, Str(1)},
        d \in {Undef, Str(0)},
        e \in CaptionMaps \cup {Undef, JNull, Str(1)}}

ReqsExport ==
    {Post("c1", <<"api", "exportZip">>, "application/json", "ok", b) : b \in ExportBodies}
    \cup {Post("c1", <<"api", "exportZip">>, "text/plain", "ok", b) :
            b \in {EmptyBody, Body(<<"transcript", Str(1)>>)}}

InitExport == \E r \in ReqsExport : FirstRequest(r)

NextExport == BodyParsed \/ ZipEnd \/ ZipError

SpecExport == InitExport /\ [][NextExport]_vars

-----------------------------------------------------------------------------
(* SpecOrder: POST /api/captions with bodies that break several rules *)

\* transcripts around the rules of the schema; long is past the maximum
OrderTranscripts(long) ==
    {Undef, JNull, JInt(5), JStr(<<>>), JStr(Rep(" ", 3)), JStr(Rep(" ", long)),
     JStr(Rep("a", long)), JStr(<<" ">> \o Rep("a", long)), S_hello}

OrderTones == {Undef, JStr(T_casual), JStr(<<"s", "a", "d">>), JInt(1)}

OrderMaxLens == {Undef, JInt(120), JInt(5), JInt(501), JNum(155), JNum(5015),
                 JStr(<<"2", "0">>)}

ReqsOrder(long) ==
    {Post("c1", <<"api", "captions">>, "application/json", "ok",
          Body(<<"transcript", t, "tone", tone, "maxLen", m>>)) :
        t \in OrderTranscripts(long), tone \in OrderTones, m \in OrderMaxLens}

InitOrder == \E r \in ReqsOrder(10000 + 1) : FirstRequestIn(r, "production")

NextOrder == BodyParsed

SpecOrder == InitOrder /\ [][NextOrder]_vars

-----------------------------------------------------------------------------
(* Properties *)

Done == pc = "done"

IsHealth(r) == r.method = "GET" /\ r.path = <<"api", "health">>

\* the rate limiter runs for the request in this step
LimiterStep ==
    /\ now' = now
    /\ "rateLimiter" \in ctx'.ran
    /\ (pc \in {"idle", "done"} \/ "rateLimiter" \notin ctx.ran)

\* the client's record is full and its window still open
Exhausted(record, t) ==
    record # NoRecord /\ record.count >= maxRequests /\ t <= record.resetTime

\* C1: once maxRequests requests of a client were admitted in its window,
\* every further request up to resetTime gets 429 RATE_LIMIT_EXCEEDED with
\* retryAfter = ceil((resetTime - now) / 1000) <= 60; the first request
\* after resetTime is admitted and sets the record to {1, now + windowMs}.
C1_LimitAndReset ==
    [][LimiterStep =>
        LET record == rateLimitStore[req'.client]
            res == ctx'.res
        IN /\ Exhausted(record, now) =>
                /\ ctx'.limited = "rejected"
                /\ res.writes = 1 /\ res.status = 429 /\ ~res.ok
                /\ res.code = "RATE_LIMIT_EXCEEDED"
                /\ res.data.kind = "retry"
                /\ 1000 * res.data.retryAfter >= record.resetTime - now
                /\ 1000 * (res.data.retryAfter - 1) < record.resetTime - now
                /\ res.data.retryAfter <= windowMs \div 1000
           /\ (record # NoRecord /\ now > record.resetTime) =>
                /\ ctx'.limited = "admitted"
                /\ rateLimitStore'[req'.client] = [count |-> 1, resetTime |-> now + windowMs]
    ]_vars

\* a request is rejected 999 ms before its window ends, with retryAfter 1
C1_Witness ==
    /\ Done /\ ctx.limited = "rejected"
    /\ ctx.res.status = 429
    /\ ctx.res.data.retryAfter = 1
    /\ rateLimitStore[req.client].resetTime - now = 999

\* C2 as stated: GET /api/health is answered 200 with ok:true, whatever
\* requests came before.
C2_HealthAlwaysOk ==
    (Done /\ IsHealth(req)) => (ctx.res.status = 200 /\ ctx.res.ok)

\* C2 amended: GET /api/health is answered 200 with ok:true (and data.ok
\* true) unless the requesting client's own record is full and its window
\* open, in which case the answer is 429 with ok:false; the requests of
\* other clients make no difference.
C2_HealthUnlessLimited ==
    [][(LimiterStep /\ IsHealth(req')) =>
        LET record == rateLimitStore[req'.client]
            res == ctx'.res
        IN /\ pc' = "done" /\ res.writes = 1
           /\ IF Exhausted(record, now)
              THEN res.status = 429 /\ ~res.ok
              ELSE /\ res.status = 200 /\ res.ok
                   /\ res.data.kind = "health" /\ res.data.ok
    ]_vars

\* c2's health check is served while c1 is over its limit
C2_Witness ==
    /\ Done /\ IsHealth(req) /\ req.client = "c2"
    /\ ctx.res.status = 200 /\ ctx.res.ok
    /\ rateLimitStore["c1"].count = maxRequests

\* C3: in every interval of 60 seconds at most 100 requests of one client
\* are admitted (here: in the interval that starts at ObserveFrom).
C3_SlidingWindow ==
    \A c \in Clients : windowAdmits[c] <= maxRequests

\* C4: every request to a path under /api is counted by the rate limiter
\* or rejected by it with 429 before it is answered.
C4_AllApiGated ==
    (Done /\ UnderApi(req.path)) => ctx.limited \in {"admitted", "rejected"}

IsExport(r) == r.method = "POST" /\ r.path = <<"api", "exportZip">>
IsCaptions(r) == r.method = "POST" /\ r.path = <<"api", "captions">>

NonEmptyString(v) == v.t = "string" /\ Len(v.s) > 0

NamedFields == {"transcript", "tweet", "instagram", "youtube"}

\* the captions entries of a body (none when captions is not an object)
CaptionEntries(body) == IF body.captions.t = "object" THEN body.captions.o ELSE <<>>

\* no named field and no captions value is a non-empty string
ZeroContent(body) ==
    /\ \A f \in NamedFields : ~NonEmptyString(body[f])
    /\ \A i \in 1..Len(CaptionEntries(body)) : ~NonEmptyString(CaptionEntries(body)[i].v)

\* C5: a POST /api/exportZip whose named fields and captions values hold no
\* non-empty string never produces an archive or a success envelope; it is
\* answered 400 with ok:false, and with code VALIDATION_ERROR when it
\* declares application/json.
C5_NoContentRejected ==
    (IsExport(req) /\ ZeroContent(req.body)) =>
        /\ pc # "zip"
        /\ "exportZipHandler" \notin ctx.ran
        /\ Done => /\ ctx.res.status = 400 /\ ~ctx.res.ok
                   /\ IsJson(req) => ctx.res.code = "VALIDATION_ERROR"

\* how many times the name occurs in the listing
Count(names, name) == Cardinality({i \in 1..Len(names) : names[i] = name})

\* the number of non-empty fields of the body whose file has this name
Wanted(body, name) ==
    Cardinality({f \in NamedFields : f \o ".txt" = name /\ NonEmptyString(body[f])})
    + Cardinality({i \in 1..Len(CaptionEntries(body)) :
                     /\ CaptionEntries(body)[i].k \o ".txt" = name
                     /\ NonEmptyString(CaptionEntries(body)[i].v)})

\* the non-empty fields of the body
ContentCount(body) ==
    Cardinality({f \in NamedFields : NonEmptyString(body[f])})
    + Cardinality({i \in 1..Len(CaptionEntries(body)) :
                     NonEmptyString(CaptionEntries(body)[i].v)})

FileNames == {f \o ".txt" : f \in NamedFields \cup {"custom1", "custom2"}}

\* C6: for a valid POST /api/exportZip with N non-empty fields, the archive
\* and the files listing of the answer hold exactly N entries, one per
\* non-empty field, named <field>.txt and <key>.txt; absent and empty
\* fields have no entry.
C6_OneFilePerField ==
    (IsExport(req) /\ (pc = "zip" \/ (Done /\ ctx.res.ok))) =>
        /\ Len(ctx.files) = ContentCount(req.body)
        /\ Len(ctx.zip) = ContentCount(req.body)
        /\ \A i \in 1..Len(ctx.zip) : ctx.zip[i].name = ctx.files[i]
        /\ \A name \in FileNames : Count(ctx.files, name) = Wanted(req.body, name)
        /\ (Done /\ ctx.res.ok) =>
              /\ ctx.res.data.kind = "zip"
              /\ ctx.res.data.files = ctx.files
              /\ ctx.res.data.zip = ctx.zip

\* an archive of three entries was answered: a named field besides an empty
\* one, and two captions keys
C6_Witness ==
    /\ IsExport(req) /\ Done /\ ctx.res.ok
    /\ Len(ctx.files) = 3
    /\ req.body.tweet = Str(0)
    /\ Len(CaptionEntries(req.body)) = 2

-----------------------------------------------------------------------------
(* POST /api/captions *)

\* the slice inside an answer: the text between "MOCK: " and " #forge #creators"
Embedded(res) ==
    SubSeq(res.data.instagram, Len(W_MOCK) + 1, Len(res.data.instagram) - Len(W_forge))

Clamp(m, lo, hi) == IF m < lo THEN lo ELSE IF m > hi THEN hi ELSE m

\* the maxLen of a request: the number sent, 120 when omitted
RequestedMaxLen(r) ==
    IF r.body.maxLen.t = "undefined" THEN 120 ELSE r.body.maxLen.n \div 10

CaptionsAnswered == IsCaptions(req) /\ Done /\ ctx.res.ok

\* C7: for every valid captions request the slice embedded in the captions
\* is at most clamp(maxLen, 20, 180) characters long; maxLen is in
\* [10, 500] and the clamp in [20, 180].
C7_SliceWithinClamp ==
    CaptionsAnswered =>
        LET m == RequestedMaxLen(req)
            c == Clamp(m, 20, 180)
        IN /\ m >= 10 /\ m <= 500
           /\ c >= 20 /\ c <= 180
           /\ ctx.res.data.kind = "captions"
           /\ Len(Embedded(ctx.res)) <= c

\* maxLen 500 and a transcript of 181 letters: the slice has 180 characters
C7_Witness ==
    /\ CaptionsAnswered
    /\ RequestedMaxLen(req) = 500
    /\ Len(req.body.transcript.s) > 180
    /\ Len(Embedded(ctx.res)) = 180

\* the reference transform: collapse, trim, then truncate to c characters
Reference(t, c) == Slice(Trim(Collapse(t)), c)

IsPrefix(a, b) == Len(a) <= Len(b) /\ a = SubSeq(b, 1, Len(a))

NotSpace(ch) == ~IsSpace(ch)

\* no whitespace at either end and no two whitespace characters in a row
Plain(p) ==
    /\ p # <<>>
    /\ ~IsSpace(p[1]) /\ ~IsSpace(p[Len(p)])
    /\ \A i \in 1..(Len(p) - 1) : ~(IsSpace(p[i]) /\ IsSpace(p[i + 1]))

\* C8 as stated: the slice equals collapse, trim, truncate to the clamp.
C8_ReferenceTransform ==
    CaptionsAnswered =>
        Embedded(ctx.res) = Reference(req.body.transcript.s,
                                      Clamp(RequestedMaxLen(req), 20, 180))

\* C8 amended: the slice is made of the first clamp characters of the raw
\* transcript: it holds their non-whitespace characters in order, single
\* spaces only and none at either end.  It is a prefix of the reference
\* transform's result, and equal to it when those first characters neither
\* begin nor end with whitespace and hold no two whitespace characters in a row.
C8_TruncateThenNormalise ==
    CaptionsAnswered =>
        LET t == req.body.transcript.s
            c == Clamp(RequestedMaxLen(req), 20, 180)
            p == SubSeq(t, 1, IF Len(t) < c THEN Len(t) ELSE c)
            e == Embedded(ctx.res)
        IN /\ SelectSeq(e, NotSpace) = SelectSeq(p, NotSpace)
           /\ \A i \in 1..Len(e) : IsSpace(e[i]) =>
                 e[i] = " " /\ i > 1 /\ i < Len(e) /\ ~IsSpace(e[i + 1])
           /\ IsPrefix(e, Reference(t, c))
           /\ Plain(p) => e = Reference(t, c)

\* a transcript with leading whitespace: the slice is shorter than the
\* reference transform's result
C8_Witness ==
    /\ CaptionsAnswered
    /\ IsSpace(req.body.transcript.s[1])
    /\ Len(Embedded(ctx.res)) > 0
    /\ Len(Embedded(ctx.res)) < Len(Reference(req.body.transcript.s,
                                             Clamp(RequestedMaxLen(req), 20, 180)))

\* maxLen is present and is no integer number of [10, 500]
BadMaxLen(v) ==
    v.t # "undefined" /\ (v.t # "number" \/ v.n % 10 # 0 \/ v.n < 100 \/ v.n > 5000)

\* what the server holds as the body's maxLen once the body is read: a
\* body that is neither JSON nor a form is never read
ReceivedMaxLen(r) ==
    IF IsJson(r) THEN r.body.maxLen
    ELSE IF IsForm(r) THEN FormValue(r.body.maxLen)
    ELSE Undef

\* C9 as stated: every captions request whose maxLen is present and not a
\* number, not an integer or outside [10, 500] is answered 400
\* VALIDATION_ERROR and the caption handler never runs; an omitted maxLen
\* is treated as 120 and an omitted tone as "default".
C9_AlwaysValidationError ==
    /\ (IsCaptions(req) /\ BadMaxLen(ReceivedMaxLen(req))) =>
          /\ "captionsHandler" \notin ctx.ran
          /\ Done => ctx.res.status = 400 /\ ctx.res.code = "VALIDATION_ERROR"
    /\ CaptionsAnswered =>
          /\ req.body.maxLen.t = "undefined" => ctx.body.maxLen = JInt(120)
          /\ req.body.tone.t = "undefined" => ctx.body.tone = JStr(T_default)

\* C9 amended: a captions request whose maxLen is present and not a number,
\* not an integer or outside [10, 500] never reaches the caption handler
\* and is answered 400 with ok:false: with code VALIDATION_ERROR when the
\* rate limiter admitted it and it declares application/json, with
\* INVALID_CONTENT_TYPE when it was admitted and declares something else;
\* an omitted maxLen is treated as 120 and an omitted tone as "default".
C9_InvalidMaxLenRejected ==
    /\ (IsCaptions(req) /\ BadMaxLen(ReceivedMaxLen(req))) =>
          /\ "captionsHandler" \notin ctx.ran
          /\ (Done /\ ctx.limited = "admitted") =>
                /\ ctx.res.status = 400 /\ ~ctx.res.ok
                /\ ctx.res.data.kind = "none"
                /\ IF IsJson(req)
                   THEN /\ ctx.res.code = "VALIDATION_ERROR"
                        /\ "validateSchema" \in ctx.ran
                   ELSE /\ ctx.res.code = "INVALID_CONTENT_TYPE"
                        /\ "validateSchema" \notin ctx.ran
    /\ CaptionsAnswered =>
          /\ ~BadMaxLen(req.body.maxLen)
          /\ req.body.maxLen.t = "undefined" =>
                /\ ctx.body.maxLen = JInt(120)
                /\ Len(Embedded(ctx.res)) <= 120
          /\ req.body.tone.t = "undefined" => ctx.body.tone = JStr(T_default)

\* the numeric string "20" as maxLen is answered with VALIDATION_ERROR
C9_Witness ==
    /\ IsCaptions(req) /\ Done /\ IsJson(req)
    /\ req.body.maxLen.t = "string"
    /\ NonEmptyString(req.body.transcript)
    /\ ctx.res.status = 400 /\ ctx.res.code = "VALIDATION_ERROR"

-----------------------------------------------------------------------------
(* The content-type gate *)

IsLog(r) == r.method = "POST" /\ r.path = <<"api", "log">>

AfterGate == {"validateSchema", "captionsHandler", "exportZipHandler", "logHandler"}

\* a request without application/json that the rate limiter admitted is
\* answered INVALID_CONTENT_TYPE, and neither schema check nor handler ran
Gated ==
    /\ ctx.ran \cap AfterGate = {}
    /\ Done => /\ ctx.res.writes = 1 /\ ctx.res.status = 400 /\ ~ctx.res.ok
               /\ ctx.res.code = "INVALID_CONTENT_TYPE"

\* C10 as stated: POST /api/captions, /api/exportZip and /api/log without
\* Content-Type application/json fail with 400 INVALID_CONTENT_TYPE before
\* any schema check or handler.
C10_ContentTypeGate ==
    ((IsCaptions(req) \/ IsExport(req) \/ IsLog(req))
        /\ ~IsJson(req) /\ ctx.limited = "admitted") => Gated

\* C10 amended: the gate stands before POST /api/captions and POST
\* /api/exportZip only; POST /api/log has none, its handler runs on
\* whatever body the parsers left and never answers INVALID_CONTENT_TYPE.
C10_GateOnCaptionsAndExport ==
    /\ ((IsCaptions(req) \/ IsExport(req)) /\ ~IsJson(req) /\ ctx.limited = "admitted")
          => Gated
    /\ (IsLog(req) /\ ~IsJson(req) /\ ctx.limited = "admitted" /\ Done) =>
          /\ "logHandler" \in ctx.ran
          /\ ctx.res.code # "INVALID_CONTENT_TYPE"

\* a form-encoded captions request stopped at the gate
C10_Witness ==
    /\ IsCaptions(req) /\ Done
    /\ req.ctype = "application/x-www-form-urlencoded"
    /\ ctx.parsed
    /\ ctx.res.code = "INVALID_CONTENT_TYPE"

-----------------------------------------------------------------------------
(* The order of the validation rules *)

AllSpace(str) == \A i \in 1..Len(str) : IsSpace(str[i])

ToneBroken(v) == v.t # "undefined" /\ ~(v.t = "string" /\ v.s \in Tones)

\* the message of the first broken rule of maxLen
MaxLenMessage(v) ==
    IF v.t # "number" THEN "Expected number, received " \o v.t
    ELSE IF v.n % 10 # 0 THEN "maxLen must be an integer"
    ELSE IF v.n < 100 THEN "maxLen must be at least 10"
    ELSE "maxLen must be at most 500"

\* the message after the transcript's rules: enum membership, then maxLen
AfterTranscript(body) ==
    IF ToneBroken(body.tone)
    THEN "tone must be one of: default, professional, casual, funny"
    ELSE MaxLenMessage(body.maxLen)

\* the first broken rule in the order required/type, whitespace-only,
\* length bounds, enum membership
ClaimedFirst(body) ==
    LET v == body.transcript
    IN IF v.t = "undefined" THEN "Required"
       ELSE IF v.t # "string" THEN "Expected string, received " \o v.t
       ELSE IF Len(v.s) = 0 THEN "transcript is required and must be a non-empty string"
       ELSE IF AllSpace(v.s) THEN "transcript cannot be empty or only whitespace"
       ELSE IF Len(v.s) > 10000 THEN "transcript is too long (max 10,000 characters)"
       ELSE AfterTranscript(body)

\* the first broken rule in the order required/type, length bounds,
\* whitespace-only, enum membership
LengthFirst(body) ==
    LET v == body.transcript
    IN IF v.t = "undefined" THEN "Required"
       ELSE IF v.t # "string" THEN "Expected string, received " \o v.t
       ELSE IF Len(v.s) = 0 THEN "transcript is required and must be a non-empty string"
       ELSE IF Len(v.s) > 10000 THEN "transcript is too long (max 10,000 characters)"
       ELSE IF AllSpace(v.s) THEN "transcript cannot be empty or only whitespace"
       ELSE AfterTranscript(body)

\* some rule of the captions schema is broken
BreaksARule(body) ==
    \/ body.transcript.t # "string"
    \/ Len(body.transcript.s) = 0 \/ Len(body.transcript.s) > 10000
    \/ AllSpace(body.transcript.s)
    \/ ToneBroken(body.tone)
    \/ BadMaxLen(body.maxLen)

CaptionsRejected == IsCaptions(req) /\ IsJson(req) /\ Done /\ BreaksARule(req.body)

\* C11 as stated: the one message of the 400 VALIDATION_ERROR answer is
\* that of the earliest broken rule in the order required/type check,
\* whitespace-only check, length bounds, enum membership.
C11_WhitespaceBeforeLength ==
    CaptionsRejected =>
        /\ ctx.res.status = 400 /\ ctx.res.code = "VALIDATION_ERROR"
        /\ ctx.res.message = ClaimedFirst(req.body)

\* C11 amended: the one message is that of the earliest broken rule in the
\* order required/type check, length bounds (non-empty, then at most
\* 10000), whitespace-only check, enum membership, then the rules of
\* maxLen; the answer is written once and no handler runs.
C11_LengthBeforeWhitespace ==
    CaptionsRejected =>
        /\ ctx.res.writes = 1
        /\ ctx.res.status = 400 /\ ~ctx.res.ok /\ ctx.res.code = "VALIDATION_ERROR"
        /\ ctx.res.message = LengthFirst(req.body)
        /\ "captionsHandler" \notin ctx.ran

\* 10001 spaces with a tone outside the enum: "too long" is reported
C11_Witness ==
    /\ CaptionsRejected
    /\ Len(req.body.transcript.s) > 10000 /\ AllSpace(req.body.transcript.s)
    /\ ToneBroken(req.body.tone)
    /\ ctx.res.message = "transcript is too long (max 10,000 characters)"

-----------------------------------------------------------------------------
(* One response per request *)

\* C12: a request gets exactly one response: an answered response is never
\* written again, and for POST /api/exportZip the "end" listener and the
\* "error" -> next -> errorHandler path never both respond.
C12_OneResponse ==
    /\ ctx.res.writes <= 1
    /\ Done => ctx.res.writes = 1
    /\ ~({"errorHandler", "zipEnd"} \subseteq ctx.ran)

-----------------------------------------------------------------------------
(* Malformed JSON *)

Malformed(r) == IsJson(r) /\ r.raw = "malformed"

\* C13: a request whose JSON body fails to parse is answered 400 with
\* ok:false and code INVALID_JSON, and reaches neither content-type
\* validation nor schema validation nor any route handler: only cors, the
\* body parser and the JSON error middleware run for it.
C13_MalformedJson ==
    Malformed(req) =>
        /\ ctx.ran \subseteq {"cors", "json", "jsonErrorHandler"}
        /\ ctx.body = EmptyBody
        /\ Done => /\ ctx.res.writes = 1
                   /\ ctx.res.status = 400 /\ ~ctx.res.ok
                   /\ ctx.res.code = "INVALID_JSON"

\* a malformed body sent to POST /api/log was answered INVALID_JSON
C13_Witness ==
    /\ Malformed(req) /\ IsLog(req) /\ Done
    /\ "jsonErrorHandler" \in ctx.ran
    /\ ctx.res.code = "INVALID_JSON"

-----------------------------------------------------------------------------
(* Failure responses *)

\* the request was answered with an error status
Failed == Done /\ ctx.res.status >= 400

\* C14: every failure response to a request served under /api has ok:false
\* with a non-empty code and a message, and no error is left without a
\* response.
C14_FailuresCarryCode ==
    /\ (Failed /\ UnderApi(req.path)) =>
          /\ ~ctx.res.ok
          /\ ctx.res.data.kind # "html"
          /\ ctx.res.code # ""
          /\ ctx.res.message # ""
    /\ Done => (ctx.err = "none" /\ ctx.res.writes >= 1)

\* the handlers of the /api routes
ApiHandlers == {"healthHandler", "diagHandler", "captionsHandler", "upload",
                "transcribeHandler", "logHandler", "exportZipHandler"}

\* C15: an error thrown by, or passed to next() from, a handler under /api
\* is answered 500 with ok:false and code INTERNAL_ERROR; the stack is part
\* of the answer only when NODE_ENV is "development", and with "production"
\* neither the stack nor the error's own message is.
C15_InternalError ==
    (Done /\ UnderApi(req.path) /\ "errorHandler" \in ctx.ran) =>
        /\ ctx.res.writes = 1
        /\ ctx.res.status = 500 /\ ~ctx.res.ok
        /\ ctx.res.code = "INTERNAL_ERROR"
        /\ ctx.res.data.kind = IF NODE_ENV = "development" THEN "stack" ELSE "none"
        /\ NODE_ENV = "production" => ctx.res.message = "Internal server error"

\* the routes index.ts registers under /api
RegisteredApi ==
    {<<"GET", <<"api", "health">>>>, <<"GET", <<"api", "diag", "log-level">>>>,
     <<"POST", <<"api", "captions">>>>, <<"POST", <<"api", "transcribe">>>>,
     <<"POST", <<"api", "log">>>>, <<"POST", <<"api", "exportzip">>>>}

Registered(r) == <<r.method, LowerPath(r.path)>> \in RegisteredApi

\* C16: a request under /api that the rate limiter admitted and that matches
\* no registered route is answered 404 with ok:false, code
\* ENDPOINT_NOT_FOUND and a data field holding the attempted path and
\* method; a registered route is never answered by the 404 handler.
C16_NotFound ==
    /\ (Done /\ UnderApi(req.path) /\ ctx.limited = "admitted" /\ ~Registered(req)) =>
          /\ ctx.res.writes = 1
          /\ ctx.res.status = 404 /\ ~ctx.res.ok
          /\ ctx.res.code = "ENDPOINT_NOT_FOUND"
          /\ ctx.res.data = [kind |-> "notfound", path |-> req.path,
                             method |-> req.method]
    /\ Registered(req) => "apiNotFoundHandler" \notin ctx.ran

-----------------------------------------------------------------------------
(* SpecTranscribe: POST /api/transcribe applied to a family of uploads *)

\* the server right after request r arrived, when the requests before it
\* were `used` admitted requests of the same client at time 0
RequestAfter(used, r, env) ==
    LET before == [c \in Clients |->
                      IF c = r.client /\ used > 0
                      THEN [count |-> used, resetTime |-> windowMs]
                      ELSE NoRecord]
        x == Run(1, NewCtx(r) @@ [req |-> r, now |-> 0, store |-> before,
                                  admits |-> [c \in Clients |-> 0],
                                  env |-> env])
    IN /\ now = 0
       /\ NODE_ENV = env
       /\ req = r
       /\ rateLimitStore = x.store
       /\ windowAdmits = x.admits
       /\ NoCall
       /\ ctx = [f \in CtxFields |-> x[f]]
       /\ pc = IF x.sig = "wait" THEN x.at ELSE "done"

\* file names: one per allowed extension, an upper-case one, and names
\* without an allowed extension
FileNames17 ==
    {<<"a">> \o ext : ext \in allowedExtensions}
    \cup {<<"A", ".", "M", "P", "3">>, N_txt, <<"m", "p", "3">>,
          <<"a", ".", "m", "p", "3", ".", "t", "x", "t">>, <<>>}

\* MIME types: one per allowed prefix, and types outside the list
MimeTypes ==
    {M_audio, M_text, <<"v", "i", "d", "e", "o", "/", "m", "p", "4">>,
     <<"a", "p", "p", "l", "i", "c", "a", "t", "i", "o", "n", "/",
       "o", "c", "t", "e", "t", "-", "s", "t", "r", "e", "a", "m">>,
     <<"a", "u", "d", "i", "o">>,
     <<"a", "p", "p", "l", "i", "c", "a", "t", "i", "o", "n", "/", "p", "d", "f">>}

\* sizes in bytes: empty, smallest, the upload limit and one byte over it
FileSizes == {0, 1, fileSize, fileSize + 1}

FieldNames == {"file", "audio"}

TranscribePaths == {<<"api", "transcribe">>, <<"API", "Transcribe">>}

ReqsTranscribe ==
    {Upload("c1", <<"api", "transcribe">>, "ok", File(fld, n, m, sz)) :
        fld \in FieldNames, n \in FileNames17, m \in MimeTypes, sz \in FileSizes}
    \cup {Upload("c1", p, raw, f) :
            p \in TranscribePaths, raw \in {"ok", "malformed"},
            f \in {NoFile, File("file", N_mp3, M_audio, 1),
                   File("file", N_txt, M_text, 1)}}
    \cup {Post("c1", <<"api", "transcribe">>, "application/json", raw, EmptyBody) :
            raw \in {"ok", "malformed"}}
    \cup {Post("c1", <<"api", "transcribe">>, "application/x-www-form-urlencoded",
                "ok", EmptyBody),
          PostEmpty("c1", <<"api", "transcribe">>)}

InitTranscribe ==
    \E r \in ReqsTranscribe, env \in Environments, used \in {0, maxRequests} :
        RequestAfter(used, r, env)

NextTranscribe == BodyParsed \/ FormParsed \/ UploadParsed

SpecTranscribe == InitTranscribe /\ [][NextTranscribe]_vars

IsTranscribe(r) ==
    r.method = "POST" /\ LowerPath(r.path) = <<"api", "transcribe">>

\* the request is a multipart upload to the route, let in by the limiter
UploadAnswered ==
    Done /\ IsTranscribe(req) /\ IsMultipart(req) /\ ctx.limited = "admitted"

\* the file was accepted: the success envelope echoes its metadata
Accepted ==
    /\ ctx.res.writes = 1 /\ ctx.res.status = 200 /\ ctx.res.ok
    /\ ctx.res.data = [kind |-> "transcribe", originalName |-> req.file.originalname,
                       size |-> req.file.size, mimeType |-> req.file.mimetype]

\* the type rule of the route: extension or MIME prefix
TypeAllowed(f) ==
    \/ \E ext \in allowedExtensions :
          /\ Len(f.originalname) >= Len(ext)
          /\ \A i \in 1..Len(ext) :
                ToLowerCase(f.originalname)[Len(f.originalname) - Len(ext) + i] = ext[i]
    \/ \E type \in allowedTypes :
          /\ Len(f.mimetype) >= Len(type)
          /\ \A i \in 1..Len(type) : f.mimetype[i] = type[i]

FileCodes == {"MISSING_FILE", "INVALID_FILE_TYPE", "EMPTY_FILE"}

\* multer refuses the body before the handler sees a file
Refused(r) ==
    \/ r.raw = "malformed"
    \/ r.file.present /\ (r.file.fieldname # "file" \/ r.file.size > fileSize)

-----------------------------------------------------------------------------
(* SpecLog: POST /api/log applied to a family of log records *)

S_click == JStr(<<"c", "l", "i", "c", "k">>)
S_user == JStr(<<"a", "n", "o", "n", "_", "1">>)
S_abc == JStr(<<"a", "b", "c">>)
S_fatal == JStr(<<"f", "a", "t", "a", "l">>)
S_empty == JStr(<<>>)

\* payload values: absent, objects, and values of every other type, falsy
\* and truthy
Payloads ==
    {Undef, JNull, JObj(<<>>), JObj(<<[k |-> "action", v |-> S_click]>>),
     S_empty, S_abc, JInt(0), JInt(5), JBool(FALSE), JBool(TRUE)}

LogTs == {S_ts, S_abc, Undef, JInt(5)}
LogLevels == {JStr(L_info), S_fatal, Undef}
LogEvents == {S_click, Str(100 + 1), Undef}
LogUsers == {S_user, Str(100 + 1), Undef}

LogRecord(ts, level, event, userAnonId, payload) ==
    Body(<<"ts", ts, "level", level, "event", event, "userAnonId", userAnonId,
           "payload", payload>>)

\* every combination of the values above, and records with one field of
\* another type, empty, or exactly 100 characters long
LogBodies ==
    {LogRecord(t, l, e, u, p) :
        t \in LogTs, l \in LogLevels, e \in LogEvents, u \in LogUsers, p \in Payloads}
    \cup {LogRecord(t, JStr(L_error), S_click, S_user, Undef) : t \in {S_empty, JNull}}
    \cup {LogRecord(S_ts, l, S_click, S_user, Undef) :
            l \in {S_empty, JInt(1), JStr(L_debug), JStr(L_warn),
                   JStr(<<"I", "N", "F", "O">>)}}
    \cup {LogRecord(S_ts, JStr(L_info), e, u, JObj(<<>>)) :
            e \in {Str(100), S_empty, JBool(TRUE)}, u \in {Str(100), S_empty, JInt(7)}}

ReqsLog ==
    {Post("c1", <<"api", "log">>, "application/json", "ok", b) : b \in LogBodies}
    \cup {Post("c1", <<"api", "log">>, "application/json", "malformed",
                LogRecord(S_ts, JStr(L_info), S_click, S_user, Undef))}
    \cup {Post("c1", <<"api", "log">>, ct, "ok",
                LogRecord(t, JStr(L_info), S_click, S_user, p)) :
            ct \in {"application/x-www-form-urlencoded", "text/plain"},
            t \in {S_ts, S_abc}, p \in {Undef, S_empty, S_abc}}
    \cup {PostEmpty("c1", <<"api", "log">>)}

InitLog ==
    \E r \in ReqsLog, env \in Environments, used \in {0, maxRequests} :
        RequestAfter(used, r, env)

NextLog == BodyParsed \/ FormParsed

SpecLog == InitLog /\ [][NextLog]_vars

\* a non-empty string: what the required-field tests of the route let pass
IsText(v) == v.t = "string" /\ Len(v.s) > 0

\* the handler of the route answered with a failure
LogFailure == Done /\ IsLog(req) /\ "logHandler" \in ctx.ran /\ ~ctx.res.ok

SixCodes == {"INVALID_TS", "INVALID_LEVEL", "INVALID_EVENT", "INVALID_USER_ANON_ID",
             "INVALID_PAYLOAD", "FIELD_TOO_LONG"}

\* a record with a missing or wrong-typed required field, a timestamp that
\* does not parse, a level outside validLevels or an over-long field
InvalidRecord(b) ==
    \/ ~IsText(b.ts) \/ ~IsText(b.level) \/ ~IsText(b.event) \/ ~IsText(b.userAnonId)
    \/ ~ParsesAsDate(b.ts.s)
    \/ b.level.s \notin validLevels
    \/ Len(b.event.s) > 100 \/ Len(b.userAnonId.s) > 100

\* C18 (as claimed): every failure of the route's field validation carries
\* one of the six codes INVALID_TS, INVALID_LEVEL, INVALID_EVENT,
\* INVALID_USER_ANON_ID, INVALID_PAYLOAD, FIELD_TOO_LONG.
C18_SixCodes == LogFailure => ctx.res.code \in SixCodes

\* C18 (amended): every invalid record is rejected, and every failure of
\* the route's field validation is a 400 with one of the six codes or
\* INVALID_TIMESTAMP (a ts string that does not parse) or INVALID_LOG_LEVEL
\* (a level string outside debug|info|warn|error); INVALID_TS and
\* INVALID_LEVEL stand for a missing, empty or non-string field only.
C18_EightCodes ==
    LET b == ctx.body
        code == ctx.res.code
    IN /\ (Done /\ IsLog(req) /\ "logHandler" \in ctx.ran /\ InvalidRecord(b))
             => ~ctx.res.ok
       /\ LogFailure =>
             /\ ctx.res.writes = 1 /\ ctx.res.status = 400 /\ ctx.res.message # ""
             /\ code \in SixCodes \cup {"INVALID_TIMESTAMP", "INVALID_LOG_LEVEL"}
             /\ code = "INVALID_TS" <=> ~IsText(b.ts)
             /\ code = "INVALID_LEVEL" => ~IsText(b.level)
             /\ code = "INVALID_EVENT" => ~IsText(b.event)
             /\ code = "INVALID_USER_ANON_ID" => ~IsText(b.userAnonId)
             /\ code = "INVALID_PAYLOAD" => b.payload.t \in {"string", "number", "boolean"}
             /\ code = "INVALID_TIMESTAMP" => (IsText(b.ts) /\ ~ParsesAsDate(b.ts.s))
             /\ code = "INVALID_LOG_LEVEL" =>
                   (IsText(b.level) /\ b.level.s \notin validLevels)
             /\ code = "FIELD_TOO_LONG" =>
                   (Len(b.event.s) > 100 \/ Len(b.userAnonId.s) > 100)

\* C18 witness: a record whose only fault is a level outside validLevels
\* was answered INVALID_LOG_LEVEL
C18_Witness ==
    /\ LogFailure /\ ctx.res.code = "INVALID_LOG_LEVEL"
    /\ ctx.body.level = S_fatal /\ ctx.body.ts = S_ts

-----------------------------------------------------------------------------
(* The log line *)

LogAnswered == Done /\ IsLog(req)

\* the four required fields passed the tests of index.ts:217-243, so the
\* handler came to the payload test
RequiredGiven(b) ==
    IsText(b.ts) /\ IsText(b.level) /\ IsText(b.event) /\ IsText(b.userAnonId)

\* C19: a request answered with a success envelope wrote exactly one line,
\* whose fields ts, level, event, userAnonId and payload are the request's
\* values verbatim (payload {} when omitted), and the envelope has no data;
\* a rejected request, and a request not yet answered, wrote no line.
C19_OneLineVerbatim ==
    LET b == ctx.body
    IN /\ (LogAnswered /\ ctx.res.ok) =>
             /\ ctx.res.writes = 1 /\ ctx.res.status = 200
             /\ ctx.res.data = [kind |-> "none"]
             /\ ctx.logged =
                   <<[ts |-> b.ts, level |-> b.level, event |-> b.event,
                      userAnonId |-> b.userAnonId,
                      payload |-> IF b.payload = Undef THEN JObj(<<>>) ELSE b.payload]>>
       /\ (IsLog(req) /\ ~(Done /\ ctx.res.ok)) => ctx.logged = <<>>

\* C20: a request that reaches the handler's payload test with a payload that is a
\* string, a number or a boolean, of any value, is answered 400
\* INVALID_PAYLOAD and writes no line; a line with payload {} comes only
\* from a request without payload or with the payload {}.
C20_NonObjectPayloadRejected ==
    LET b == ctx.body
    IN /\ (LogAnswered /\ "logHandler" \in ctx.ran /\ RequiredGiven(b)
            /\ b.payload.t \in {"string", "number", "boolean"}) =>
              /\ ctx.res.status = 400 /\ ~ctx.res.ok
              /\ ctx.res.code = "INVALID_PAYLOAD"
              /\ ctx.logged = <<>>
       /\ (LogAnswered /\ ctx.logged # <<>> /\ ctx.logged[1].payload = JObj(<<>>)) =>
              b.payload \in {Undef, JObj(<<>>)}

-----------------------------------------------------------------------------
(* Field lengths of a log record *)

\* every field of the record but the lengths of event and userAnonId is valid
OtherwiseValid(b) ==
    /\ RequiredGiven(b)
    /\ ParsesAsDate(b.ts.s)
    /\ b.level.s \in validLevels
    /\ b.payload.t \in {"undefined", "object"}

\* C21: a log request that reached the handler with an event or userAnonId
\* longer than 100 characters, its other fields valid, is answered 400
\* FIELD_TOO_LONG and writes no line; with both of at most 100 characters
\* (100 included) it is accepted.
C21_FieldTooLong ==
    LET b == ctx.body
    IN (LogAnswered /\ "logHandler" \in ctx.ran /\ OtherwiseValid(b)) =>
          IF Len(b.event.s) > 100 \/ Len(b.userAnonId.s) > 100
          THEN /\ ctx.res.writes = 1 /\ ctx.res.status = 400 /\ ~ctx.res.ok
               /\ ctx.res.code = "FIELD_TOO_LONG"
               /\ ctx.logged = <<>>
          ELSE /\ ctx.res.writes = 1 /\ ctx.res.status = 200 /\ ctx.res.ok
               /\ Len(ctx.logged) = 1

\* C21 witness: a record whose event and userAnonId have exactly 100
\* characters was accepted
C21_Witness ==
    /\ LogAnswered /\ "logHandler" \in ctx.ran /\ OtherwiseValid(ctx.body)
    /\ Len(ctx.body.event.s) = 100 /\ Len(ctx.body.userAnonId.s) = 100
    /\ ctx.res.ok /\ Len(ctx.logged) = 1

-----------------------------------------------------------------------------
(* SpecEnvelope: res.envelope.success applied to a family of arguments *)

S_done == JStr(<<"d", "o", "n", "e">>)
S_CODE == JStr(<<"C", "O", "D", "E">>)

DataArgs == {Undef, JNull, JObj(<<>>), JObj(<<[k |-> "action", v |-> S_click]>>),
             JInt(0), JInt(5), S_empty, S_abc, JBool(FALSE)}
MessageArgs == {Undef, S_empty, S_done}
CodeArgs == {Undef, S_empty, S_CODE}

\* a fresh response (status 200, as at every call of the application) and
\* a call about to be made
InitEnvelope ==
    /\ now = 0
    /\ rateLimitStore = [c \in Clients |-> NoRecord]
    /\ req = NoReq
    /\ pc = "idle"
    /\ ctx = NewCtx(NoReq)
    /\ windowAdmits = [c \in Clients |-> 0]
    /\ NODE_ENV \in Environments
    /\ \E d \in DataArgs, m \in MessageArgs, c \in CodeArgs : call = Args(d, m, c)
    /\ sent = NoBody
    /\ flights = <<>> /\ admitted = <<>>

\* envelope.ts:47  res.json(envelope) on the response as it stands
SuccessCall ==
    /\ call.made /\ ~sent.done
    /\ sent' = [done |-> TRUE, status |-> ctx.res.status,
                body |-> success(call.data, call.message, call.code)]
    /\ UNCHANGED <<now, rateLimitStore, req, pc, ctx, windowAdmits, NODE_ENV, call>>
    /\ UNCHANGED <<flights, admitted>>

NextEnvelope == SuccessCall

SpecEnvelope == InitEnvelope /\ [][NextEnvelope]_vars

\* the body has the field, with the argument's value
Carries(field, arg) == field \in DOMAIN sent.body /\ sent.body[field] = arg

\* C22 (as claimed): success sends ok:true with status 200, and the body
\* has a data, message or code field if and only if that argument was
\* provided, with the argument's value.
C22_FieldIffProvided ==
    sent.done =>
        /\ sent.status = 200
        /\ Carries("ok", JBool(TRUE))
        /\ DOMAIN sent.body \subseteq {"ok", "data", "message", "code"}
        /\ IF call.data # Undef THEN Carries("data", call.data)
                                 ELSE "data" \notin DOMAIN sent.body
        /\ IF call.message # Undef THEN Carries("message", call.message)
                                    ELSE "message" \notin DOMAIN sent.body
        /\ IF call.code # Undef THEN Carries("code", call.code)
                                 ELSE "code" \notin DOMAIN sent.body

\* C22 (amended): success sends ok:true with status 200; the body has a
\* data field if and only if data was provided (null included), and a
\* message or code field if and only if a non-empty message or code was
\* provided; a field left out is not there as null or any placeholder.
C22_FieldIffNonEmpty ==
    sent.done =>
        /\ sent.status = 200
        /\ Carries("ok", JBool(TRUE))
        /\ DOMAIN sent.body \subseteq {"ok", "data", "message", "code"}
        /\ IF call.data # Undef THEN Carries("data", call.data)
                                 ELSE "data" \notin DOMAIN sent.body
        /\ IF call.message \notin {Undef, S_empty}
           THEN Carries("message", call.message)
           ELSE "message" \notin DOMAIN sent.body
        /\ IF call.code \notin {Undef, S_empty}
           THEN Carries("code", call.code)
           ELSE "code" \notin DOMAIN sent.body

\* C22 witness: a call with a message only sent {ok, message}
C22_Witness ==
    /\ sent.done
    /\ call = Args(Undef, S_done, Undef)
    /\ DOMAIN sent.body = {"ok", "message"}

-----------------------------------------------------------------------------
(* The three captions *)

\* the slice of a transcript for a maxLen, whatever the tone
SliceOf(transcript, m) == Trim(Collapse(Slice(transcript, Clamp(m, 20, 180))))

\* C23 (as claimed): the three captions of a valid request are "MOCK: "
\* and one and the same slice, followed by the fixed suffixes ".",
\* " #forge #creators" and " — generated with Forge"; the slice is decided
\* by transcript and maxLen alone, whatever the tone.
C23_FixedSuffixes ==
    CaptionsAnswered =>
        LET core == W_MOCK \o SliceOf(req.body.transcript.s, RequestedMaxLen(req))
        IN /\ ctx.res.data.tweet = core \o <<".">>
           /\ ctx.res.data.instagram = core \o W_forge
           /\ ctx.res.data.youtube = core \o W_generated

\* C23 (amended): the same, but the suffix of tweet is "." only when the
\* slice is not empty, and nothing when it is.
C23_SharedCore ==
    CaptionsAnswered =>
        LET slice == SliceOf(req.body.transcript.s, RequestedMaxLen(req))
            core == W_MOCK \o slice
        IN /\ ctx.res.data.tweet = core \o (IF slice = <<>> THEN <<>> ELSE <<".">>)
           /\ ctx.res.data.instagram = core \o W_forge
           /\ ctx.res.data.youtube = core \o W_generated

\* C23 witness: a request with the tone "funny" and a maxLen over 20 got
\* the three captions around a slice of more than 20 characters
C23_Witness ==
    /\ CaptionsAnswered
    /\ req.body.tone = JStr(T_funny)
    /\ Len(Embedded(ctx.res)) > 20
    /\ ctx.res.data.tweet = W_MOCK \o Embedded(ctx.res) \o <<".">>
    /\ ctx.res.data.youtube = W_MOCK \o Embedded(ctx.res) \o W_generated

-----------------------------------------------------------------------------
(* The rate limiter's mount point *)

\* C24: no step taken for a request whose path is outside /api changes
\* the rate-limit store, runs the rate limiter or answers 429.
C24_OnlyUnderApi ==
    [][(req' # NoReq /\ ~UnderApi(req'.path)) =>
          /\ rateLimitStore' = rateLimitStore
          /\ ctx'.limited = "none"
          /\ "rateLimiter" \notin ctx'.ran
          /\ ctx'.res.status # 429]_vars

\* C24 witness: GET / is served while the client's record is exhausted
C24_Witness ==
    /\ Done /\ req.method = "GET" /\ req.path = <<>>
    /\ rateLimitStore[req.client].count >= maxRequests
    /\ ctx.res.writes = 1 /\ ctx.res.status = 200
    /\ ctx.limited = "none"

-----------------------------------------------------------------------------
(* Expired records *)

\* the record's window is over at time t
Expired(record, t) == record # NoRecord /\ t > record.resetTime

\* C25: when the rate limiter runs for a client whose record is expired
\* (now > resetTime), the record becomes {count: 1, resetTime: now +
\* windowMs} and the request is admitted; a request is rejected, or counted
\* on top of a record, only while that record's window is open; the record
\* the limiter leaves behind is never expired.
C25_LazyReset ==
    [][LimiterStep =>
        LET old == rateLimitStore[req'.client]
            new == rateLimitStore'[req'.client]
        IN /\ Expired(old, now) =>
                /\ new = [count |-> 1, resetTime |-> now + windowMs]
                /\ ctx'.limited = "admitted"
                /\ ctx'.res.status # 429
           /\ ctx'.limited = "rejected" => (old # NoRecord /\ ~Expired(old, now))
           /\ (old # NoRecord /\ new.count = old.count + 1) =>
                (~Expired(old, now) /\ new.resetTime = old.resetTime)
           /\ ~Expired(new, now)
    ]_vars

\* C25 witness: a record made at time 0 and counted on at 59001 was
\* replaced by the request of 60001
C25_Witness ==
    /\ Done /\ ctx.limited = "admitted"
    /\ now = windowMs + 1
    /\ rateLimitStore[req.client] = [count |-> 1, resetTime |-> now + windowMs]
    /\ windowAdmits[req.client] >= 2

-----------------------------------------------------------------------------
(* SpecLimits: POST /api/exportZip with fields of a wrong type or too long *)

\* values of a named field: absent, empty, short, `over` characters past
\* the limit max, and values that are no strings
LimitValues(max, over) ==
    {Undef, S_empty, Str(1), Str(max + over), JNull, JInt(0)}

LimitCaptions(over) ==
    {Undef, JObj(<<>>), JStr(<<"x">>),
     JObj(<<[k |-> "custom1", v |-> Str(10000 + over)]>>),
     JObj(<<[k |-> "custom1", v |-> JInt(7)]>>),
     JObj(<<[k |-> "custom1", v |-> Str(1)], [k |-> "custom2", v |-> Str(10000 + over)]>>)}

ReqsLimits(over) ==
    {Post("c1", <<"api", "exportZip">>, "application/json", "ok",
          Body(<<"transcript", t, "tweet", w, "captions", c>>)) :
        t \in {Undef, S_empty, Str(50000), JInt(0)},
        w \in LimitValues(10000, over), c \in LimitCaptions(over)}
    \cup {Post("c1", <<"api", "exportZip">>, "application/json", "ok",
               Body(<<"transcript", Str(50000 + over), f, v>>)) :
            f \in {"instagram", "youtube"}, v \in {Undef, Str(10000 + over), JBool(FALSE)}}

InitLimits == \E r \in ReqsLimits(1) : FirstRequestIn(r, "production")

NextLimits == BodyParsed \/ ZipEnd \/ ZipError

SpecLimits == InitLimits /\ [][NextLimits]_vars

\* the message of a present string field that is no string or too long
\* (none for a field that is absent or passes)
StringFault(v, max, tooLong) ==
    IF v.t = "undefined" THEN {}
    ELSE IF v.t # "string" THEN {Expected("string", v)}
    ELSE IF Len(v.s) > max THEN {tooLong}
    ELSE {}

\* the messages of the faults of the captions field
CaptionsFault(v) ==
    IF v.t = "undefined" THEN {}
    ELSE IF v.t # "object" THEN {Expected("object", v)}
    ELSE {Expected("string", v.o[i].v) : i \in {n \in 1..Len(v.o) : v.o[n].v.t # "string"}}
         \cup {"caption value is too long (max 10,000 characters)" :
                 i \in {n \in 1..Len(v.o) : v.o[n].v.t = "string" /\ Len(v.o[n].v.s) > 10000}}

\* the messages of all type and length faults of a body
FieldFaults(b) ==
    StringFault(b.transcript, 50000, "transcript is too long (max 50,000 characters)")
    \cup StringFault(b.tweet, 10000, "tweet is too long (max 10,000 characters)")
    \cup StringFault(b.instagram, 10000, "instagram is too long (max 10,000 characters)")
    \cup StringFault(b.youtube, 10000, "youtube is too long (max 10,000 characters)")
    \cup CaptionsFault(b.captions)

ExportValidated == IsExport(req) /\ IsJson(req) /\ "validateSchema" \in ctx.ran

\* C26: an exportZip request with a present field of the wrong type or
\* over its length limit is answered 400 VALIDATION_ERROR with the message
\* of such a field, never with "At least one content field is required",
\* and the handler does not run; that message is the answer only when no
\* present field has such a fault.
C26_FieldChecksFirst ==
    ExportValidated =>
        /\ FieldFaults(req.body) # {} =>
              /\ Done /\ ctx.res.writes = 1
              /\ ctx.res.status = 400 /\ ~ctx.res.ok
              /\ ctx.res.code = "VALIDATION_ERROR"
              /\ ctx.res.message \in FieldFaults(req.body)
              /\ ctx.res.message # "At least one content field is required"
              /\ "exportZipHandler" \notin ctx.ran
        /\ ctx.res.message = "At least one content field is required" =>
              (FieldFaults(req.body) = {} /\ ZeroContent(req.body))

\* C26 witness: a body whose only field is a tweet of the wrong type, with
\* no content at all, was answered with the type message
C26_Witness ==
    /\ ExportValidated /\ Done
    /\ req.body.tweet = JNull
    /\ ZeroContent(req.body)
    /\ ctx.res.message = Expected("string", JNull)

-----------------------------------------------------------------------------
(* SpecConcurrent: requests of one client in flight together.  Node runs   *)
(* each callback to its end before the next one starts, so a step is the   *)
(* synchronous stretch of one request: from its arrival, or from the event *)
(* it waited for, to its answer or to the next event it waits for.  req,   *)
(* pc and ctx hold the request answered last.                              *)

\* requests that can wait for an event at the same time
MaxFlights == 2

\* the stretch of a window looked at: its first requests, and its last ones
\* before the limit
Headroom == 3

Slots == 1..MaxFlights

Free == [req |-> NoReq, at |-> "free", ctx |-> NewCtx(NoReq),
         seen |-> [c \in Clients |-> NoRecord]]

ReqsConcurrent ==
    {Get("c1", <<"api", "health">>),
     Post("c1", <<"api", "captions">>, "application/json", "ok",
          Body(<<"transcript", S_hello>>)),
     Post("c1", <<"api", "exportZip">>, "application/json", "ok",
          Body(<<"transcript", Str(1)>>))}

\* the window has just begun, or the client has had all but Headroom of
\* its requests let pass since time 0
InitConcurrent ==
    /\ now = 0
    /\ \E n \in {0, maxRequests - Headroom} :
          /\ admitted = [c \in Clients |-> IF c = "c1" THEN n ELSE 0]
          /\ rateLimitStore =
                [c \in Clients |-> IF c = "c1" /\ n > 0
                                   THEN [count |-> n, resetTime |-> windowMs]
                                   ELSE NoRecord]
    /\ req = NoReq
    /\ pc = "idle"
    /\ ctx = NewCtx(NoReq)
    /\ windowAdmits = [c \in Clients |-> 0]
    /\ NODE_ENV = "production"
    /\ call = NoArgs /\ sent = NoBody
    /\ flights = [i \in Slots |-> Free]

\* InFlight reading the store as it was when the request arrived
InFlight_stale(i) ==
    flights[i].ctx @@ [req |-> flights[i].req, now |-> now, store |-> flights[i].seen,
                       admits |-> windowAdmits, env |-> NODE_ENV]

\* the request in slot i as its callback finds it: its own context, and
\* the process state as it is now
InFlight(i) ==
    flights[i].ctx @@ [req |-> flights[i].req, now |-> now, store |-> rateLimitStore,
                       admits |-> windowAdmits, env |-> NODE_ENV]

\* write back what the synchronous stretch of the request in slot i left:
\* before is the list of layers that had run when it started
Land(i, r, seen, before, x) ==
    LET passed == "rateLimiter" \in x.ran \ before /\ x.limited = "admitted"
        waits == x.sig = "wait" \/ (x.archive = "open" /\ x.sig # "uncaught")
    IN /\ rateLimitStore' = x.store
       /\ windowAdmits' = x.admits
       /\ admitted' = [admitted EXCEPT ![r.client] = IF passed THEN @ + 1 ELSE @]
       /\ flights' = [flights EXCEPT ![i] =
                         IF waits
                         THEN [req |-> r, at |-> IF x.sig = "wait" THEN x.at ELSE "late",
                               ctx |-> [f \in CtxFields |-> x[f]], seen |-> seen]
                         ELSE Free]
       /\ IF x.sig = "wait"
          THEN UNCHANGED <<req, pc, ctx>>
          ELSE /\ req' = r
               /\ ctx' = [f \in CtxFields |-> x[f]]
               /\ pc' = IF x.sig = "uncaught" THEN "crashed" ELSE "done"
       /\ UNCHANGED <<now, NODE_ENV, call, sent>>

\* a request arrives while others wait
Accept(i, r) ==
    /\ pc # "crashed"
    /\ flights[i].at \in {"free", "late"}
    /\ admitted[r.client] < Headroom \/ admitted[r.client] >= maxRequests - Headroom
    /\ Land(i, r, rateLimitStore, {},
            Run(1, NewCtx(r) @@ [req |-> r, now |-> now, store |-> rateLimitStore,
                                 admits |-> windowAdmits, env |-> NODE_ENV]))

\* express.json() has read the body of the request in slot i
Resume(i) ==
    /\ pc # "crashed"
    /\ flights[i].at = "json"
    /\ Land(i, flights[i].req, flights[i].seen, flights[i].ctx.ran,
            Run(Index("json") + 1, jsonParsed(InFlight(i))))

\* the archive of the request in slot i emits "end"
ArchiveEnd(i) ==
    /\ pc # "crashed"
    /\ flights[i].at \in {"zip", "late"}
    /\ Land(i, flights[i].req, flights[i].seen, flights[i].ctx.ran, zipEnd(InFlight(i)))

\* the archive of the request in slot i emits "error"
ArchiveError(i) ==
    /\ pc # "crashed"
    /\ flights[i].at = "zip"
    /\ Land(i, flights[i].req, flights[i].seen, flights[i].ctx.ran,
            Run(Index("exportZip") + 1, zipError(InFlight(i))))

NextConcurrent ==
    \/ \E i \in Slots, r \in ReqsConcurrent : Accept(i, r)
    \/ \E i \in Slots : Resume(i)
    \/ \E i \in Slots : ArchiveEnd(i)
    \/ \E i \in Slots : ArchiveError(i)

SpecConcurrent == InitConcurrent /\ [][NextConcurrent]_vars

\* a request in flight the rate limiter has not seen yet / has let pass
Uncounted(i) == flights[i].at = "json"
Counted(i) == flights[i].at = "zip" /\ flights[i].ctx.limited = "admitted"

\* C27: with requests of one client in flight together, under every
\* interleaving the client's record counts exactly the requests the rate
\* limiter let pass (no increment is lost), never more than maxRequests,
\* and a step in which the limiter runs adds one for a request it lets
\* pass and nothing for one it rejects.
C27_AtomicLimiter ==
    [][/\ \A c \in Clients :
             IF rateLimitStore'[c] = NoRecord THEN admitted'[c] = 0
             ELSE /\ rateLimitStore'[c].count = admitted'[c]
                  /\ admitted'[c] <= maxRequests
       /\ \A c \in Clients :
             rateLimitStore'[c].count - rateLimitStore[c].count =
                admitted'[c] - admitted[c]
       /\ (pc' = "done" /\ ctx'.limited = "rejected" /\ ctx' # ctx) =>
             rateLimitStore' = rateLimitStore
      ]_vars

\* C27 witness: the record is full while one request the limiter let pass
\* still waits for its archive, another whose body is still being read has
\* not been counted, and the request answered last was rejected
C27_Witness ==
    /\ rateLimitStore["c1"].count = maxRequests
    /\ admitted["c1"] = maxRequests
    /\ \E i \in Slots, j \in Slots : Counted(i) /\ Uncounted(j)
    /\ pc = "done" /\ ctx.limited = "rejected" /\ ctx.res.status = 429

-----------------------------------------------------------------------------
(* SpecAnswered: the first request of a process under the assumption that  *)
(* an archive that was finalized emits "end" or "error".  Every other      *)
(* handler answers in the synchronous stretch that reaches it.             *)

\* the handlers of the routes under /api (multer's upload.single runs
\* before the transcribe handler and is none of them)
RouteHandlers == ApiHandlers \ {"upload"}

HandlerReached == ctx.ran \cap RouteHandlers # {}

Answered == ctx.res.writes > 0

\* the exportZip handler has finalized the archive and waits for it
ArchivePending == pc = "zip" /\ "exportZipHandler" \in ctx.ran /\ ctx.archive = "open"

\* index.ts:347-360  the answer of the "end" listener
ZipAnswer ==
    /\ ctx.res.status = 200 /\ ctx.res.ok
    /\ ctx.res.message = "ZIP file generated successfully"
    /\ ctx.res.data.kind = "zip"

SpecAnswered == SpecFirst /\ WF_vars(ZipEnd \/ ZipError)

\* C28: every request under /api that reaches a route handler is
\* eventually answered; an exportZip request that passed validation is
\* answered by the first event of its archive, with the success envelope
\* on "end" and with a 500 on "error", and one of the two comes.
C28_EventuallyAnswered ==
    /\ [](HandlerReached => <>Answered)
    /\ ArchivePending ~> (Answered /\ (ZipAnswer \/ ctx.res.status = 500))
    /\ [][ArchivePending =>
            /\ Answered' /\ ctx'.res.writes = 1
            /\ IF ctx'.archive = "ended" THEN ZipAnswer'
               ELSE ctx'.res.status = 500 /\ ~ctx'.res.ok]_vars

\* C28 witness: an archive that emitted "error" was answered with a 500
C28_Witness ==
    /\ "exportZipHandler" \in ctx.ran /\ "errorHandler" \in ctx.ran
    /\ ctx.archive = "open"
    /\ pc = "done" /\ Answered /\ ctx.res.status = 500

-----------------------------------------------------------------------------
(* SpecStore: the records of two clients over time.  A window holds a      *)
(* hundred requests; the first requests of a window and the last ones      *)
(* before and at the limit are looked at.                                  *)

\* a record made at time 0 that lacks Headroom requests to the limit
NearlyFull == [count |-> maxRequests - Headroom, resetTime |-> windowMs]

InitStore ==
    /\ now = 0
    /\ rateLimitStore \in [Clients -> {NoRecord, NearlyFull}]
    /\ req = NoReq
    /\ pc = "idle"
    /\ ctx = NewCtx(NoReq)
    /\ windowAdmits = [c \in Clients |-> 0]
    /\ NoCall
    /\ NODE_ENV = "production"

\* a health check of one of the clients
ArriveStore ==
    \E r \in ReqsClients :
        LET record == rateLimitStore[r.client]
        IN /\ \/ record.count < Headroom
              \/ record.count >= maxRequests - Headroom
              \/ Expired(record, now)
           /\ Request(r)

NextStore == ArriveStore \/ Tick

SpecStore == InitStore /\ [][NextStore]_vars

\* C29: a request rejected with 429 leaves the whole store as it was, count
\* and resetTime of the client's own record included, so that the window
\* of a client who keeps asking still ends at the same time; and a request
\* changes no record but its own client's.
C29_RejectionLeavesStore ==
    [][LimiterStep =>
        /\ (ctx'.limited = "rejected" \/ ctx'.res.status = 429) =>
              /\ ctx'.limited = "rejected" /\ ctx'.res.status = 429
              /\ rateLimitStore' = rateLimitStore
        /\ \A c \in Clients \ {req'.client} : rateLimitStore'[c] = rateLimitStore[c]
    ]_vars

\* C29 witness: c1 is rejected 999 ms before its window ends, its record
\* still the one made at time 0, while c2 has a record of its own
C29_Witness ==
    /\ Done /\ req.client = "c1" /\ ctx.res.status = 429
    /\ now = windowMs - 999
    /\ rateLimitStore["c1"] = [count |-> maxRequests, resetTime |-> windowMs]
    /\ rateLimitStore["c2"] # NoRecord /\ rateLimitStore["c2"].resetTime > windowMs

\* the times at which a request can have arrived so far
ArrivalTimes == {t \in Times : t <= now}

\* each record has 1 <= count <= maxRequests and a resetTime that is the
\* arrival time of a request plus windowMs
RecordsInRange ==
    \A c \in Clients :
        LET record == rateLimitStore[c]
        IN record # NoRecord =>
            /\ 1 <= record.count /\ record.count <= maxRequests
            /\ \E t \in ArrivalTimes : record.resetTime = t + windowMs

\* C30: in every state each record of the store has 1 <= count <=
\* maxRequests and resetTime = the arrival time of the request that made
\* it + windowMs: a record is made with count 1 by the first request of a
\* client or by the first after its window expired; otherwise resetTime
\* stays, and count grows by one for an admitted request and not at all
\* for a rejected one; no record is removed and time alone changes none.
C30_RecordInvariant ==
    /\ []RecordsInRange
    /\ [][\A c \in Clients :
            LET old == rateLimitStore[c]
                new == rateLimitStore'[c]
            IN \/ new = old
               \/ /\ LimiterStep /\ c = req'.client /\ ctx'.limited = "admitted"
                  /\ IF old = NoRecord \/ Expired(old, now)
                     THEN new = [count |-> 1, resetTime |-> now + windowMs]
                     ELSE new = [old EXCEPT !.count = @ + 1]
       ]_vars

\* C30 witness: c1's record is full, and c2's, counted on at 59001, was
\* made again by the request that arrived at 60001
C30_Witness ==
    /\ rateLimitStore["c1"].count = maxRequests
    /\ rateLimitStore["c2"] = [count |-> 1, resetTime |-> windowMs + 1 + windowMs]
    /\ windowAdmits["c2"] >= 2
    /\ now = windowMs + 1

====
